---- MODULE Spec2Model ----
(***************************************************************************)
(* Checkpoint store (lib/checkpoint_manager.py) and execution engine       *)
(* (lib/execution_engine.py) of nexus-cli.                                 *)
(*                                                                         *)
(* The checkpoint of the one feature an engine works on is a file written  *)
(* through a temporary file and a rename.  The store's calls are split at  *)
(* every access to the file system, so that the tasks of a parallel batch  *)
(* interleave there as the threads of the worker pool do.                  *)
(***************************************************************************)
EXTENDS Integers, Sequences, FiniteSets, TLC

VARIABLES
    fs,           \* the two paths of the feature: [final, temp], each a file content
    fd,           \* per actor: the file its open handle of the temp path refers to
    st,           \* per actor: the store call in progress
    clock,        \* datetime.now()
    committed,    \* history: the document of the last save whose rename succeeded
    out,          \* the value returned by the store call under study
    args,         \* the inputs of the store call under study
    hist,         \* history: the calls under study made so far, or the final
                  \* path's content after each of them
    cfg,          \* the engine's configuration and the batches it is given
    cancelled,    \* ExecutionEngine._cancelled
    pause_requested, \* ExecutionEngine._pause_requested
    mpc,          \* where the controlling thread is in execute_all_batches
    start_batch,  \* execute_all_batches: start_batch
    bi,           \* execute_all_batches: index of the batch in the list
    ti,           \* batch executors: index of the task in the batch's list
    bres,         \* batch executors: batch_result.task_results
    results,      \* execute_all_batches: results
    tpc,          \* per task: where its execute_task call is
    retry_count,  \* per task: execute_task's retry_count
    attempts,     \* per task, history: how often its work was invoked
    work,         \* per task: the threads _execute_with_timeout has started for
                  \* its work, and the result and exception lists of each call
    tres,         \* per task: the TaskResult its execute_task returned
    told,         \* per task, history: terminal statuses sent to the store and
                  \* task-complete callbacks made by its execute_task
    fut,          \* per task: its future in the worker pool
    collected     \* execute_batch_parallel: the futures as_completed has yielded

storeVars == <<fs, fd, st, clock, committed>>

callVars == <<out, args, hist>>

taskVars == <<tpc, retry_count, attempts, work, tres, told>>

mainVars == <<mpc, start_batch, bi, ti, bres, results, collected>>

engineVars == <<cfg, cancelled, pause_requested, mainVars, taskVars, fut>>

vars == <<storeVars, callVars, engineVars>>

(***************************************************************************)
(* Bounds of the model.                                                    *)
(***************************************************************************)
MaxClock == 2

MaxCalls == 2

MaxRetries == 2

MaxParallel == 2

MaxBatchCalls == 3

\* invocations of one task's work that are followed
MaxAttempts == 4

(***************************************************************************)
(* Values.  None is Python's None for strings; a timestamp is 0 when None. *)
(***************************************************************************)
None == "None"

\* what on_error_decision's callback is documented to return (lines 154-161)
DocumentedAnswers == {"retry", "skip", "abort"}

TaskStatus == {"pending", "in_progress", "completed", "failed", "skipped"}

BatchStatus == {"pending", "in_progress", "completed", "partial", "failed"}

\* Python truthiness of an optional string: None and "" are false.
Truthy(s) == s # None /\ s # ""

TaskState(t) ==
    [task_id |-> t.id, name |-> t.name, executor |-> t.executor,
     status |-> "pending", error_message |-> None,
     start_time |-> 0, end_time |-> 0, retry_count |-> 0, result |-> None]

BatchState(b) ==
    [batch_id |-> b.id, name |-> b.name, batch_type |-> b.type,
     status |-> "pending",
     tasks |-> [j \in 1..Len(b.tasks) |-> TaskState(b.tasks[j])],
     start_time |-> 0, end_time |-> 0]

\* hashlib.md5(f"{time.time()}").hexdigest()[:8]: a string that follows the time
md5_8(now) ==
    CASE now = 1 -> "c4ca4238"
      [] now = 2 -> "c81e728d"
      [] OTHER -> "eccbc87e"

\* a dict with string keys and values; {} is the dict without keys
EmptyDict == [k \in {} |-> ""]

ExecutionCheckpoint(feature_name, batch_states, now) ==
    [feature_name |-> feature_name, current_batch |-> 0,
     total_batches |-> Len(batch_states), batches |-> batch_states,
     created_at |-> now, updated_at |-> now, execution_id |-> md5_8(now),
     config |-> EmptyDict, error_log |-> <<>>]

(***************************************************************************)
(* The document: to_dict + json.dump, and its length in characters, which  *)
(* decides what a write over an existing content leaves behind.            *)
(***************************************************************************)
StrLen(s) ==
    CASE s = "" -> 0
      [] s = "out" -> 3
      [] s = "boom" -> 4
      [] s = "pending" -> 7
      [] s = "skipped" -> 7
      [] s = "partial" -> 7
      [] s = "failed" -> 6
      [] s = "completed" -> 9
      [] s = "in_progress" -> 11
      [] OTHER -> 8

\* json: null, or the string in quotes
JsonStr(s) == IF s = None THEN 4 ELSE StrLen(s) + 2

\* json: null, or datetime.isoformat() in quotes
JsonTime(t) == IF t = 0 THEN 4 ELSE 28

RECURSIVE SumSeq(_)
SumSeq(s) == IF s = <<>> THEN 0 ELSE Head(s) + SumSeq(Tail(s))

TaskLen(t) ==
    JsonStr(t.task_id) + JsonStr(t.name) + JsonStr(t.executor) + JsonStr(t.status)
    + JsonStr(t.error_message) + JsonTime(t.start_time) + JsonTime(t.end_time)
    + JsonStr(t.result) + 1

BatchLen(b) ==
    JsonStr(b.name) + JsonStr(b.batch_type) + JsonStr(b.status)
    + JsonTime(b.start_time) + JsonTime(b.end_time) + 1
    + SumSeq([j \in 1..Len(b.tasks) |-> TaskLen(b.tasks[j])])

DocLen(d) ==
    JsonStr(d.feature_name) + JsonTime(d.created_at) + JsonTime(d.updated_at) + 2
    + SumSeq([i \in 1..Len(d.batches) |-> BatchLen(d.batches[i])])
    + SumSeq([k \in 1..Len(d.error_log) |->
                JsonStr(d.error_log[k].task_id) + JsonStr(d.error_log[k].error)
                + JsonTime(d.error_log[k].timestamp)])

\* a conversion that leaves the config out of the document
to_dict_without_config(cp) ==
    [feature_name |-> cp.feature_name, current_batch |-> cp.current_batch,
     total_batches |-> cp.total_batches,
     batches |-> [i \in 1..Len(cp.batches) |->
        [batch_id |-> cp.batches[i].batch_id, name |-> cp.batches[i].name,
         batch_type |-> cp.batches[i].batch_type, status |-> cp.batches[i].status,
         tasks |-> cp.batches[i].tasks,
         start_time |-> cp.batches[i].start_time, end_time |-> cp.batches[i].end_time]],
     created_at |-> cp.created_at, updated_at |-> cp.updated_at,
     execution_id |-> cp.execution_id,
     error_log |-> cp.error_log]

to_dict(cp) ==
    [feature_name |-> cp.feature_name, current_batch |-> cp.current_batch,
     total_batches |-> cp.total_batches,
     batches |-> [i \in 1..Len(cp.batches) |->
        [batch_id |-> cp.batches[i].batch_id, name |-> cp.batches[i].name,
         batch_type |-> cp.batches[i].batch_type, status |-> cp.batches[i].status,
         tasks |-> cp.batches[i].tasks,
         start_time |-> cp.batches[i].start_time, end_time |-> cp.batches[i].end_time]],
     created_at |-> cp.created_at, updated_at |-> cp.updated_at,
     execution_id |-> cp.execution_id, config |-> cp.config,
     error_log |-> cp.error_log]

\* File contents.  A garbled content is what a shorter document written over a
\* longer one leaves: the new text followed by the tail of the old one.
Missing == [kind |-> "missing", data |-> <<>>, len |-> 0]

Empty == [kind |-> "empty", data |-> <<>>, len |-> 0]

Doc(d) == [kind |-> "doc", data |-> <<d>>, len |-> DocLen(d)]

Garbled(n) == [kind |-> "garbled", data |-> <<>>, len |-> n]

NoCheckpoint == [found |-> FALSE, cp |-> <<>>, raised |-> "none"]

Found(cp) == [found |-> TRUE, cp |-> <<cp>>, raised |-> "none"]

\* an exception leaves load_checkpoint
Raised(exc) == [found |-> FALSE, cp |-> <<>>, raised |-> exc]

\* dict.get(key, default)
Get(d, key, default) == IF key \in DOMAIN d THEN d[key] ELSE default

RECURSIVE FirstError(_)
FirstError(errors) ==
    IF errors = <<>> THEN "none"
    ELSE IF Head(errors) # "none" THEN Head(errors)
    ELSE FirstError(Tail(errors))

\* TaskState(task_id=t["task_id"], ..., status=TaskStatus(t["status"]), ...):
\* the exception it raises, "none" when the task is built
TaskStateError(t) ==
    IF ~({"task_id", "name", "executor", "status"} \subseteq DOMAIN t) THEN "KeyError"
    ELSE IF t.status \notin TaskStatus THEN "ValueError"
    ELSE "none"

\* the tasks of b are built first, then BatchState(batch_id=b["batch_id"], ...)
BatchStateError(b) ==
    LET tasks == Get(b, "tasks", <<>>)
        e == FirstError([j \in 1..Len(tasks) |-> TaskStateError(tasks[j])])
    IN  IF e # "none" THEN e
        ELSE IF ~({"batch_id", "name", "batch_type", "status"} \subseteq DOMAIN b)
             THEN "KeyError"
        ELSE IF b.status \notin BatchStatus THEN "ValueError"
        ELSE "none"

\* the exception the try block raises, "none" when it reaches its return
load_error(final) ==
    CASE final.kind \in {"empty", "garbled"} -> "JSONDecodeError"
      [] final.kind = "array" -> "AttributeError"
      [] OTHER ->
           LET data == final.data[1]
               batches == Get(data, "batches", <<>>)
               e == FirstError([i \in 1..Len(batches) |-> BatchStateError(batches[i])])
           IN  IF e # "none" THEN e
               ELSE IF "feature_name" \notin DOMAIN data THEN "KeyError"
               ELSE "none"

\* a loader whose handler takes json.JSONDecodeError only
except_JSONDecodeError(exc) == exc = "JSONDecodeError"

\* except Exception: every exception of the try block is one
except_Exception(exc) == TRUE

(***************************************************************************)
(* load_checkpoint: None when the path does not exist or the try block     *)
(* raises, else the checkpoint rebuilt from the document, absent optional  *)
(* keys taking their defaults.                                             *)
(***************************************************************************)
load_checkpoint(final) ==
    IF final.kind = "missing" THEN NoCheckpoint
    ELSE IF load_error(final) # "none"
         THEN IF except_Exception(load_error(final)) THEN NoCheckpoint
              ELSE Raised(load_error(final))
    ELSE LET data == final.data[1]
             batches == Get(data, "batches", <<>>)
         IN  Found(
            [feature_name |-> data.feature_name,
             current_batch |-> Get(data, "current_batch", 0),
             total_batches |-> Get(data, "total_batches", 0),
             batches |-> [i \in 1..Len(batches) |->
                [batch_id |-> batches[i].batch_id, name |-> batches[i].name,
                 batch_type |-> batches[i].batch_type,
                 status |-> batches[i].status,
                 tasks |-> [j \in 1..Len(Get(batches[i], "tasks", <<>>)) |->
                    LET t == batches[i].tasks[j] IN
                    [task_id |-> t.task_id, name |-> t.name, executor |-> t.executor,
                     status |-> t.status,
                     error_message |-> Get(t, "error_message", None),
                     start_time |-> Get(t, "start_time", 0),
                     end_time |-> Get(t, "end_time", 0),
                     retry_count |-> Get(t, "retry_count", 0),
                     result |-> Get(t, "result", None)]],
                 start_time |-> Get(batches[i], "start_time", 0),
                 end_time |-> Get(batches[i], "end_time", 0)]],
             created_at |-> Get(data, "created_at", 0),
             updated_at |-> Get(data, "updated_at", 0),
             execution_id |-> Get(data, "execution_id", ""),
             config |-> Get(data, "config", EmptyDict),
             error_log |-> Get(data, "error_log", <<>>)])

(***************************************************************************)
(* The file system under save_checkpoint: open(temp, 'w') creates or       *)
(* truncates the temporary file, json.dump and close write the document    *)
(* through the handle, rename moves the temporary file over the final one. *)
(***************************************************************************)
WriteAt(content, d) ==
    IF content.len <= DocLen(d) THEN Doc(d) ELSE Garbled(content.len)

FsOpen(f) == [f EXCEPT !.temp = Empty]

\* a store that writes the document to the final path itself, without a
\* temporary file
FsWriteInPlace(f, handle, d) == [f EXCEPT !.final = Doc(d)]

FsWrite(f, handle, d) ==
    CASE handle = "temp" -> [f EXCEPT !.temp = WriteAt(@, d)]
      [] handle = "final" -> [f EXCEPT !.final = WriteAt(@, d)]
      [] OTHER -> f

FsRename(f) == [final |-> f.temp, temp |-> Missing]

\* The handles of the other threads follow the files, not the paths.
FdAfterRename(h) ==
    CASE h = "temp" -> "final"
      [] h = "final" -> "orphan"
      [] OTHER -> h

\* save_checkpoint, lines 146-160: refresh updated_at, convert for json
save_data(cp, now) == to_dict([cp EXCEPT !.updated_at = now])

\* save_checkpoint run by one thread with nothing in between
save_checkpoint(f, cp, now) ==
    FsRename(FsWrite(FsOpen(f), "temp", save_data(cp, now)))

(***************************************************************************)
(* create_checkpoint                                                       *)
(***************************************************************************)
new_checkpoint(feature_name, batches_config, now) ==
    ExecutionCheckpoint(feature_name,
        [i \in 1..Len(batches_config) |-> BatchState(batches_config[i])], now)

\* a store that keeps the checkpoint the path already holds
create_checkpoint_if_absent(f, feature_name, batches_config, now) ==
    IF f.final.kind # "missing" THEN f
    ELSE save_checkpoint(f, new_checkpoint(feature_name, batches_config, now), now)

create_checkpoint(f, feature_name, batches_config, now) ==
    save_checkpoint(f, new_checkpoint(feature_name, batches_config, now), now)

(***************************************************************************)
(* update_task_status: the first task with the id, in batch and task order *)
(***************************************************************************)
HasTask(cp, task_id) ==
    \E i \in 1..Len(cp.batches) : \E j \in 1..Len(cp.batches[i].tasks) :
        cp.batches[i].tasks[j].task_id = task_id

BatchOfTask(cp, task_id) ==
    CHOOSE i \in 1..Len(cp.batches) :
        /\ \E j \in 1..Len(cp.batches[i].tasks) :
               cp.batches[i].tasks[j].task_id = task_id
        /\ \A k \in 1..(i - 1) : \A j \in 1..Len(cp.batches[k].tasks) :
               cp.batches[k].tasks[j].task_id # task_id

IndexOfTask(b, task_id) ==
    CHOOSE j \in 1..Len(b.tasks) :
        /\ b.tasks[j].task_id = task_id
        /\ \A k \in 1..(j - 1) : b.tasks[k].task_id # task_id

\* an update that also counts every terminal status as one more retry
set_task_status_counting(task, status, error_message, result, now) ==
    [task EXCEPT
        !.status = status,
        !.start_time = IF status = "in_progress" THEN now ELSE @,
        !.end_time = IF status \in {"completed", "failed"} THEN now ELSE @,
        !.error_message = IF Truthy(error_message) THEN error_message ELSE @,
        !.result = IF Truthy(result) THEN result ELSE @,
        !.retry_count = IF status = "in_progress" THEN @ ELSE @ + 1]

set_task_status(task, status, error_message, result, now) ==
    [task EXCEPT
        !.status = status,
        !.start_time = IF status = "in_progress" THEN now ELSE @,
        !.end_time = IF status \in {"completed", "failed"} THEN now ELSE @,
        !.error_message = IF Truthy(error_message) THEN error_message ELSE @,
        !.result = IF Truthy(result) THEN result ELSE @]

log_error(error_log, task_id, error_message, now) ==
    IF Truthy(error_message)
    THEN Append(error_log, [task_id |-> task_id, error |-> error_message,
                            timestamp |-> now])
    ELSE error_log

\* an update that gives the status to every task of the task's batch
task_updated_whole_batch(cp, task_id, status, error_message, result, now) ==
    LET i == BatchOfTask(cp, task_id)
    IN  [cp EXCEPT
            !.batches[i].tasks = [j \in 1..Len(@) |->
                set_task_status(@[j], status, error_message, result, now)],
            !.error_log = log_error(@, task_id, error_message, now)]

\* lines 246-262: the checkpoint in memory after the update (task_id is in it)
task_updated(cp, task_id, status, error_message, result, now) ==
    LET i == BatchOfTask(cp, task_id)
        j == IndexOfTask(cp.batches[i], task_id)
    IN  [cp EXCEPT
            !.batches[i].tasks[j] =
                set_task_status(@, status, error_message, result, now),
            !.error_log = log_error(@, task_id, error_message, now)]

\* an update that saves the loaded checkpoint again when the task is not in it
update_task_status_resaving(f, task_id, status, error_message, result, now) ==
    LET l == load_checkpoint(f.final) IN
    IF ~l.found THEN [fs |-> f, ret |-> FALSE]
    ELSE IF ~HasTask(l.cp[1], task_id)
    THEN [fs |-> save_checkpoint(f, l.cp[1], now), ret |-> FALSE]
    ELSE [fs |-> save_checkpoint(f,
                    task_updated(l.cp[1], task_id, status, error_message, result, now),
                    now),
          ret |-> TRUE]

\* update_task_status run by one thread with nothing in between:
\* the file system afterwards and the value returned
update_task_status(f, task_id, status, error_message, result, now) ==
    LET l == load_checkpoint(f.final) IN
    IF ~l.found \/ ~HasTask(l.cp[1], task_id)
    THEN [fs |-> f, ret |-> FALSE]
    ELSE [fs |-> save_checkpoint(f,
                    task_updated(l.cp[1], task_id, status, error_message, result, now),
                    now),
          ret |-> TRUE]

(***************************************************************************)
(* update_batch_status                                                     *)
(***************************************************************************)
HasBatch(cp, batch_id) ==
    \E i \in 1..Len(cp.batches) : cp.batches[i].batch_id = batch_id

IndexOfBatch(cp, batch_id) ==
    CHOOSE i \in 1..Len(cp.batches) :
        /\ cp.batches[i].batch_id = batch_id
        /\ \A k \in 1..(i - 1) : cp.batches[k].batch_id # batch_id

\* an update that points current_batch at the batch whatever the status
batch_updated_pointing(cp, batch_id, status, now) ==
    LET i == IndexOfBatch(cp, batch_id) IN
    [cp EXCEPT
        !.batches[i].status = status,
        !.batches[i].start_time = IF status = "in_progress" THEN now ELSE @,
        !.batches[i].end_time =
            IF status \in {"completed", "failed", "partial"} THEN now ELSE @,
        !.current_batch = batch_id]

batch_updated(cp, batch_id, status, now) ==
    LET i == IndexOfBatch(cp, batch_id) IN
    [cp EXCEPT
        !.batches[i].status = status,
        !.batches[i].start_time = IF status = "in_progress" THEN now ELSE @,
        !.batches[i].end_time =
            IF status \in {"completed", "failed", "partial"} THEN now ELSE @,
        !.current_batch = IF status = "in_progress" THEN batch_id ELSE @]

update_batch_status(f, batch_id, status, now) ==
    LET l == load_checkpoint(f.final) IN
    IF ~l.found \/ ~HasBatch(l.cp[1], batch_id)
    THEN [fs |-> f, ret |-> FALSE]
    ELSE [fs |-> save_checkpoint(f, batch_updated(l.cp[1], batch_id, status, now), now),
          ret |-> TRUE]

(***************************************************************************)
(* get_resume_point                                                        *)
(***************************************************************************)
NoResumePoint == [found |-> FALSE, point |-> <<>>]

\* a resume point that passes over partial batches
ResumableNotPartial == {"pending", "in_progress"}

ResumableBatchStatus == {"pending", "in_progress", "partial"}

resume_point_of(batch) ==
    [batch_id |-> batch.batch_id,
     batch_name |-> batch.name,
     incomplete_tasks |->
        LET inc == SelectSeq(batch.tasks,
                             LAMBDA t : t.status \in {"pending", "failed"})
        IN  [k \in 1..Len(inc) |->
                [id |-> inc[k].task_id, name |-> inc[k].name,
                 executor |-> inc[k].executor]],
     completed_tasks |->
        LET done == SelectSeq(batch.tasks, LAMBDA t : t.status = "completed")
        IN  [k \in 1..Len(done) |-> done[k].task_id]]

get_resume_point(final) ==
    LET l == load_checkpoint(final) IN
    IF ~l.found THEN NoResumePoint
    ELSE LET cp == l.cp[1]
             open == {i \in 1..Len(cp.batches) :
                        cp.batches[i].status \in ResumableBatchStatus}
         IN  IF open = {} THEN NoResumePoint
             ELSE LET first == CHOOSE i \in open : \A k \in open : i <= k
                  IN  [found |-> TRUE, point |-> <<resume_point_of(cp.batches[first])>>]

(***************************************************************************)
(* Checkpoints the store can hold: a fresh checkpoint of a batch           *)
(* configuration on which status updates were applied.                     *)
(***************************************************************************)
TaskSpec(id) == [id |-> id, name |-> "T", executor |-> "x"]

BatchSpec(id, name, type, ids) ==
    [id |-> id, name |-> name, type |-> type,
     tasks |-> [j \in 1..Len(ids) |-> TaskSpec(ids[j])]]

Feature == "f"

NoFiles == [final |-> Missing, temp |-> Missing]

RECURSIVE Flatten(_)
Flatten(ss) == IF ss = <<>> THEN <<>> ELSE Head(ss) \o Flatten(Tail(ss))

TaskIdsOf(batches_config) ==
    Flatten([i \in 1..Len(batches_config) |->
                [j \in 1..Len(batches_config[i].tasks) |-> batches_config[i].tasks[j].id]])

Range(s) == {s[i] : i \in 1..Len(s)}

\* the arguments the engine passes with a status
ErrorWith(status) == IF status \in {"failed", "skipped"} THEN "boom" ELSE None

ResultWith(status) == IF status = "completed" THEN "out" ELSE None

RECURSIVE WithTaskStatuses(_, _, _, _)
WithTaskStatuses(f, ids, ts, now) ==
    IF ids = <<>> THEN f
    ELSE LET id == Head(ids)
             g == IF ts[id] = "pending" THEN f
                  ELSE update_task_status(f, id, ts[id], ErrorWith(ts[id]),
                                          ResultWith(ts[id]), now).fs
         IN  WithTaskStatuses(g, Tail(ids), ts, now)

RECURSIVE WithBatchStatuses(_, _, _, _, _)
WithBatchStatuses(f, batches_config, i, bs, now) ==
    IF i > Len(batches_config) THEN f
    ELSE LET g == IF bs[i] = "pending" THEN f
                  ELSE update_batch_status(f, batches_config[i].id, bs[i], now).fs
         IN  WithBatchStatuses(g, batches_config, i + 1, bs, now)

StoredCheckpoints(batches_config) ==
    { WithBatchStatuses(
        WithTaskStatuses(create_checkpoint(NoFiles, Feature, batches_config, 1),
                         TaskIdsOf(batches_config), ts, 1),
        batches_config, 1, bs, 1) :
      ts \in [Range(TaskIdsOf(batches_config)) -> TaskStatus],
      bs \in [1..Len(batches_config) -> BatchStatus] }

NotCalled == [called |-> FALSE, value |-> <<>>]

Returned(v) == [called |-> TRUE, value |-> <<v>>]

Idle == [pc |-> "idle", data |-> <<>>, ok |-> FALSE]

NoConfig ==
    [error_strategy |-> "ask", max_retries |-> 0, max_parallel_tasks |-> 1,
     has_callback |-> FALSE, answers |-> DocumentedAnswers, timeouts |-> FALSE,
     logger |-> "sink",
     batches |-> <<>>, resume |-> TRUE]

\* no engine: the store is called directly
NoEngine ==
    /\ cfg = NoConfig
    /\ cancelled = FALSE
    /\ pause_requested = FALSE
    /\ mpc = "none"
    /\ start_batch = 0
    /\ bi = 0
    /\ ti = 0
    /\ bres = <<>>
    /\ results = <<>>
    /\ collected = {}
    /\ tpc = <<>>
    /\ retry_count = <<>>
    /\ attempts = <<>>
    /\ work = <<>>
    /\ tres = <<>>
    /\ told = <<>>
    /\ fut = <<>>

IdleStore ==
    /\ fd = [a \in {"main"} |-> "none"]
    /\ st = [a \in {"main"} |-> Idle]
    /\ committed = fs.final
    /\ NoEngine

(***************************************************************************)
(* SpecResume: get_resume_point on every checkpoint of a three-batch       *)
(* configuration.                                                          *)
(***************************************************************************)
ResumeConfig ==
    << BatchSpec(1, "A", "serial", <<"1.1">>),
       BatchSpec(2, "B", "parallel", <<"2.1", "2.2">>),
       BatchSpec(3, "C", "serial", <<>>) >>

InitResume ==
    /\ fs \in StoredCheckpoints(ResumeConfig) \cup {NoFiles}
    /\ IdleStore
    /\ clock = 1
    /\ out = NotCalled
    /\ args = <<>>
    /\ hist = <<>>

GetResumePoint ==
    /\ ~out.called
    /\ out' = Returned(get_resume_point(fs.final))
    /\ UNCHANGED <<storeVars, args, hist, engineVars>>

NextResume == GetResumePoint

SpecResume == InitResume /\ [][NextResume]_vars

Loaded == load_checkpoint(fs.final)

\* C8: get_resume_point returns the first batch in list order whose status is
\* pending, in_progress or partial; incomplete_tasks are exactly that batch's
\* tasks that are pending or failed, completed_tasks exactly its completed ones.
C8_ResumePointIsFirstOpenBatch ==
    (out.called /\ Loaded.found) =>
        LET cp == Loaded.cp[1]
            r == out.value[1]
        IN  \A i \in 1..Len(cp.batches) :
              ( /\ cp.batches[i].status \in {"pending", "in_progress", "partial"}
                /\ \A k \in 1..(i - 1) :
                      cp.batches[k].status \notin {"pending", "in_progress", "partial"} )
              => /\ r.found
                 /\ r.point[1].batch_id = cp.batches[i].batch_id
                 /\ {t.id : t \in Range(r.point[1].incomplete_tasks)}
                      = {t.task_id : t \in {u \in Range(cp.batches[i].tasks) :
                                              u.status \in {"pending", "failed"}}}
                 /\ Len(r.point[1].incomplete_tasks)
                      = Cardinality({j \in 1..Len(cp.batches[i].tasks) :
                            cp.batches[i].tasks[j].status \in {"pending", "failed"}})
                 /\ Range(r.point[1].completed_tasks)
                      = {t.task_id : t \in {u \in Range(cp.batches[i].tasks) :
                                              u.status = "completed"}}
                 /\ Len(r.point[1].completed_tasks)
                      = Cardinality({j \in 1..Len(cp.batches[i].tasks) :
                            cp.batches[i].tasks[j].status = "completed"})

\* [A:completed, B:partial, C:pending], B holding a failed and a completed task
C8_Witness ==
    /\ out.called
    /\ Loaded.found
    /\ LET cp == Loaded.cp[1] IN
         /\ [i \in 1..3 |-> cp.batches[i].status] = <<"completed", "partial", "pending">>
         /\ [j \in 1..2 |-> cp.batches[2].tasks[j].status] = <<"failed", "completed">>
    /\ out.value[1].found
    /\ out.value[1].point[1].batch_id = 2
    /\ out.value[1].point[1].incomplete_tasks = <<TaskSpec("2.1")>>
    /\ out.value[1].point[1].completed_tasks = <<"2.2">>

\* C9: for a loadable checkpoint get_resume_point returns absent exactly when
\* every batch has status completed.
C9_AbsentIffAllCompleted ==
    (out.called /\ Loaded.found) =>
        ( ~out.value[1].found
          <=> \A i \in 1..Len(Loaded.cp[1].batches) :
                 Loaded.cp[1].batches[i].status = "completed" )

(***************************************************************************)
(* SpecUpdate: update_task_status called with the same arguments up to     *)
(* MaxCalls times on every checkpoint of a one-batch configuration.        *)
(***************************************************************************)
UpdateConfig == << BatchSpec(1, "A", "serial", <<"1.1", "1.2">>) >>

UpdateArgs ==
    [task_id : {"1.1", "1.2", "9.9"}, status : TaskStatus,
     error_message : {None, "", "boom"}, result : {None, "", "out"}]

InitUpdate ==
    /\ fs \in StoredCheckpoints(UpdateConfig) \cup {NoFiles}
    /\ IdleStore
    /\ clock = 1
    /\ out = NotCalled
    /\ args \in UpdateArgs
    /\ hist = <<>>

UpdateTaskStatus ==
    /\ Len(hist) < MaxCalls
    /\ LET r == update_task_status(fs, args.task_id, args.status,
                                   args.error_message, args.result, clock)
       IN  /\ fs' = r.fs
           /\ out' = Returned(r.ret)
           /\ hist' = Append(hist, r.fs.final)
    /\ UNCHANGED <<fd, st, clock, committed, args, engineVars>>

Tick ==
    /\ clock < MaxClock
    /\ clock' = clock + 1
    /\ UNCHANGED <<fs, fd, st, committed, callVars, engineVars>>

NextUpdate == UpdateTaskStatus \/ Tick

SpecUpdate == InitUpdate /\ [][NextUpdate]_vars

\* a stored content with every timestamp blanked
StripTimes(content) ==
    IF content.kind # "doc" THEN content
    ELSE LET d == content.data[1] IN
         [d EXCEPT
            !.created_at = 0, !.updated_at = 0,
            !.batches = [i \in 1..Len(d.batches) |->
                [d.batches[i] EXCEPT
                    !.start_time = 0, !.end_time = 0,
                    !.tasks = [j \in 1..Len(d.batches[i].tasks) |->
                        [d.batches[i].tasks[j] EXCEPT !.start_time = 0, !.end_time = 0]]]],
            !.error_log = [k \in 1..Len(d.error_log) |->
                [d.error_log[k] EXCEPT !.timestamp = 0]]]

StripLog(stripped) ==
    IF "error_log" \in DOMAIN stripped THEN [stripped EXCEPT !.error_log = <<>>]
    ELSE stripped

LogLen(content) == IF content.kind = "doc" THEN Len(content.data[1].error_log) ELSE 0

TerminalStatus == {"completed", "failed", "skipped"}

\* C10 as stated: the same terminal status update applied twice leaves the
\* persisted checkpoint as applying it once does, apart from timestamps.
C10_UpdateTwiceAsOnce ==
    args.status \in TerminalStatus =>
        \A k \in 2..Len(hist) : StripTimes(hist[k]) = StripTimes(hist[1])

\* C10 amended: ... apart from timestamps and the error log, which gets one more
\* entry with each application that passes an error message.
C10_UpdateTwiceAsOnceButLog ==
    args.status \in TerminalStatus =>
        \A k \in 2..Len(hist) :
            /\ StripLog(StripTimes(hist[k])) = StripLog(StripTimes(hist[1]))
            /\ LogLen(hist[k]) =
                 LogLen(hist[1])
                 + (IF out.value[1] /\ Truthy(args.error_message) THEN k - 1 ELSE 0)

C10_Witness ==
    /\ Len(hist) = 2
    /\ args.status = "failed"
    /\ args.error_message = "boom"
    /\ out.value[1]
    /\ hist[2] # hist[1]
    /\ LogLen(hist[2]) = LogLen(hist[1]) + 1

(***************************************************************************)
(* The store's calls as the steps of one thread (actor a).  A call starts  *)
(* by loading the checkpoint and changing it in memory; save_checkpoint    *)
(* then opens the temporary file, writes and closes it, and renames it.    *)
(* st[a].pc is the step the call is at: "open", "write", "rename", and     *)
(* "ret" once it has returned st[a].ok.                                    *)
(***************************************************************************)
Returning(ok) == [pc |-> "ret", data |-> <<>>, ok |-> ok]

Saving(cp, now) == [pc |-> "open", data |-> <<save_data(cp, now)>>, ok |-> FALSE]

\* update_task_status, lines 242-264, up to the call of save_checkpoint
begin_update_task_status(final, task_id, status, error_message, result, now) ==
    LET l == load_checkpoint(final) IN
    IF ~l.found \/ ~HasTask(l.cp[1], task_id) THEN Returning(FALSE)
    ELSE Saving(task_updated(l.cp[1], task_id, status, error_message, result, now), now)

\* update_batch_status, lines 275-288, up to the call of save_checkpoint
begin_update_batch_status(final, batch_id, status, now) ==
    LET l == load_checkpoint(final) IN
    IF ~l.found \/ ~HasBatch(l.cp[1], batch_id) THEN Returning(FALSE)
    ELSE Saving(batch_updated(l.cp[1], batch_id, status, now), now)

\* create_checkpoint, lines 106-136, up to the call of save_checkpoint
begin_create_checkpoint(feature_name, batches_config, now) ==
    Saving(new_checkpoint(feature_name, batches_config, now), now)

\* line 165: open(temp_path, 'w')
SaveOpen(a) ==
    /\ st[a].pc = "open"
    /\ fs' = FsOpen(fs)
    /\ fd' = [fd EXCEPT ![a] = "temp"]
    /\ st' = [st EXCEPT ![a].pc = "write"]
    /\ UNCHANGED <<clock, committed, callVars, engineVars>>

\* lines 166: json.dump, and the close that ends the with block
SaveWrite(a) ==
    /\ st[a].pc = "write"
    /\ fs' = FsWrite(fs, fd[a], st[a].data[1])
    /\ fd' = [fd EXCEPT ![a] = "none"]
    /\ st' = [st EXCEPT ![a].pc = "rename"]
    /\ UNCHANGED <<clock, committed, callVars, engineVars>>

\* lines 167-171: temp_path.rename(checkpoint_path); an OSError is caught
SaveRename(a) ==
    /\ st[a].pc = "rename"
    /\ IF fs.temp.kind = "missing"
       THEN /\ st' = [st EXCEPT ![a] = Returning(FALSE)]
            /\ UNCHANGED <<fs, fd, committed>>
       ELSE /\ fs' = FsRename(fs)
            /\ fd' = [b \in DOMAIN fd |-> FdAfterRename(fd[b])]
            /\ committed' = Doc(st[a].data[1])
            /\ st' = [st EXCEPT ![a] = Returning(TRUE)]
    /\ UNCHANGED <<clock, callVars, engineVars>>

(***************************************************************************)
(* SpecSave: one caller makes up to MaxCalls store calls, step by step;    *)
(* the process can be killed at any step, after which the checkpoint is    *)
(* read by load_checkpoint.                                                *)
(***************************************************************************)
SaveArgs ==
    [task_id : {"1.1", "1.2"}, status : TaskStatus,
     error_message : {None, "boom"}, result : {None, "out"}]

InitSave ==
    /\ fs \in {NoFiles, create_checkpoint(NoFiles, Feature, UpdateConfig, 1)}
    /\ IdleStore
    /\ clock = 1
    /\ out = NotCalled
    /\ args = <<>>
    /\ hist = <<>>

CanCall == st["main"].pc = "idle" /\ Len(hist) < MaxCalls

CallCreateCheckpoint ==
    /\ CanCall
    /\ st' = [st EXCEPT !["main"] = begin_create_checkpoint(Feature, UpdateConfig, clock)]
    /\ UNCHANGED <<fs, fd, clock, committed, callVars, engineVars>>

CallUpdateTaskStatus ==
    /\ CanCall
    /\ \E u \in SaveArgs :
         st' = [st EXCEPT !["main"] =
                  begin_update_task_status(fs.final, u.task_id, u.status,
                                           u.error_message, u.result, clock)]
    /\ UNCHANGED <<fs, fd, clock, committed, callVars, engineVars>>

CallUpdateBatchStatus ==
    /\ CanCall
    /\ \E b \in {1, 2}, s \in BatchStatus :
         st' = [st EXCEPT !["main"] = begin_update_batch_status(fs.final, b, s, clock)]
    /\ UNCHANGED <<fs, fd, clock, committed, callVars, engineVars>>

CallReturn ==
    /\ st["main"].pc = "ret"
    /\ st' = [st EXCEPT !["main"] = Idle]
    /\ hist' = Append(hist, fs.final)
    /\ UNCHANGED <<fs, fd, clock, committed, out, args, engineVars>>

\* the process is killed; st keeps the step the call was at
Crash ==
    /\ st["main"].pc \in {"open", "write", "rename"}
    /\ st' = [st EXCEPT !["main"] = [pc |-> "crashed", data |-> <<@.pc>>, ok |-> FALSE]]
    /\ fd' = [fd EXCEPT !["main"] = "none"]
    /\ UNCHANGED <<fs, clock, committed, callVars, engineVars>>

LoadAfterCrash ==
    /\ st["main"].pc = "crashed"
    /\ ~out.called
    /\ out' = Returned(load_checkpoint(fs.final))
    /\ UNCHANGED <<storeVars, args, hist, engineVars>>

NextSave ==
    \/ CallCreateCheckpoint
    \/ CallUpdateTaskStatus
    \/ CallUpdateBatchStatus
    \/ SaveOpen("main")
    \/ SaveWrite("main")
    \/ SaveRename("main")
    \/ CallReturn
    \/ Crash
    \/ LoadAfterCrash

SpecSave == InitSave /\ [][NextSave]_vars

\* C1: when save_checkpoint is interrupted after the temporary file was written
\* and before the rename, the final path still holds the previously saved
\* version, and load_checkpoint returns that checkpoint.
C1_InterruptedSaveKeepsPrevious ==
    (st["main"].pc = "crashed" /\ st["main"].data = <<"rename">>) =>
        /\ fs.final = committed
        /\ fs.temp.kind = "doc"
        /\ out.called =>
             /\ out.value[1].found = (committed.kind = "doc")
             /\ out.value[1].found => to_dict(out.value[1].cp[1]) = committed.data[1]

C1_Witness ==
    /\ st["main"].pc = "crashed"
    /\ st["main"].data = <<"rename">>
    /\ committed.kind = "doc"
    /\ fs.temp.kind = "doc"
    /\ fs.temp # fs.final
    /\ out.called
    /\ out.value[1].found
    /\ Len(hist) = 1

(***************************************************************************)
(* The execution engine.                                                   *)
(*                                                                         *)
(* cfg.logger is the log sink the engine's calls go to: "ExecutionLogger"  *)
(* is the logger the constructor builds (line 107), which has only some of *)
(* the methods the engine calls, with other parameters for some; "sink" is *)
(* a sink the host puts in its place that takes every call the engine      *)
(* makes.  A call the logger does not take raises.                         *)
(***************************************************************************)
ErrorStrategy == {"retry", "skip", "fail_fast", "ask"}

\* what a decision callback returns: one of the three values it is documented
\* to return, or anything else, None here
CallbackAnswers == DocumentedAnswers \cup {None}

\* the calls of the engine that lib/execution_logger.py's ExecutionLogger takes
ExecutionLoggerTakes == {"log_execution_start", "log_task_start"}

Logs(c, call) == c.logger = "sink" \/ call \in ExecutionLoggerTakes

\* a resolver that retries once more than max_retries allows
RetryOrSkipInclusive(count, max_retries) == IF count <= max_retries THEN "retry" ELSE "skip"

RetryOrSkip(count, max_retries) == IF count < max_retries THEN "retry" ELSE "skip"

\* _handle_error, answer being what the decision callback returns when asked
handle_error_given(c, count, answer) ==
    CASE c.error_strategy = "retry" -> RetryOrSkip(count, c.max_retries)
      [] c.error_strategy = "skip" -> "skip"
      [] c.error_strategy = "fail_fast" -> "abort"
      [] c.error_strategy = "ask" ->
            IF c.has_callback THEN answer
            ELSE RetryOrSkip(count, c.max_retries)
      [] OTHER -> "skip"

\* _handle_error: the decisions it can return
handle_error(c, count) ==
    {handle_error_given(c, count, answer) : answer \in c.answers}

TaskResult(task_id, result, output, error, count) ==
    [task_id |-> task_id, result |-> result, output |-> output, error |-> error,
     retry_count |-> count]

NoTaskResult == TaskResult(None, "none", None, None, 0)

NotTold == [store |-> 0, callback |-> 0]

success_count(task_results) ==
    Cardinality({k \in 1..Len(task_results) : task_results[k].result = "success"})

failed_count(task_results) ==
    Cardinality({k \in 1..Len(task_results) : task_results[k].result = "failed"})

\* lines 442-449 and 554-561
batch_status(flag, task_results) ==
    IF flag THEN "partial"
    ELSE IF failed_count(task_results) = 0 THEN "completed"
    ELSE IF success_count(task_results) = 0 THEN "failed"
    ELSE "partial"

\* a loop of execute_batch_serial that is left after any task that did not
\* succeed
serial_stops_on_skip(flag, last, c) == flag \/ last.result \in {"failed", "skipped"}

\* a loop of execute_batch_serial that is never left early
serial_never_stops(flag, last, c) == FALSE

\* execute_batch_serial leaves its loop when the flag is set (lines 412-413) and
\* after a failed task under fail_fast (lines 435-437)
serial_stops(flag, last, c) ==
    flag \/ (last.result = "failed" /\ c.error_strategy = "fail_fast")

Tasks == DOMAIN tpc

CurBatch == cfg.batches[bi]

CurTask == CurBatch.tasks[ti].id

Scenarios ==
    { << BatchSpec(1, "A", "serial", <<"1.1", "1.2", "1.3">>) >>,
      << BatchSpec(1, "A", "parallel", <<"1.1", "1.2">>) >> }

Configs ==
    { c \in [error_strategy : ErrorStrategy, max_retries : 0..MaxRetries,
             max_parallel_tasks : 1..MaxParallel, has_callback : BOOLEAN,
             answers : {DocumentedAnswers}, timeouts : {FALSE},
             logger : {"ExecutionLogger", "sink"}, batches : Scenarios,
             resume : {TRUE}] :
        \* a callback is consulted under ask only, the pool by a parallel batch only
        /\ c.has_callback => c.error_strategy = "ask"
        /\ c.batches[1].type = "serial" => c.max_parallel_tasks = 1 }

(***************************************************************************)
(* _execute_with_timeout: each call makes its own result and exception     *)
(* lists and starts a thread that runs the work and fills one of them; the *)
(* caller joins the thread for at most the timeout.                        *)
(***************************************************************************)
NoWork == [threads |-> <<>>, cells |-> <<>>]

\* result = [None], exception = [None]
EmptyCell == [result |-> None, exception |-> None]

\* an engine that keeps one result and one exception list for all its calls
cell_of_first(n) == 1

\* the lists the n-th call's thread fills and its caller reads: its own
cell_of(n) == n

\* lines 319-329: the lists are made and the thread is started
execute_with_timeout(w) ==
    LET n == Len(w.threads) + 1 IN
    [threads |-> Append(w.threads, [state |-> "running", seen |-> "none"]),
     cells |-> [Append(w.cells, EmptyCell) EXCEPT ![cell_of(n)] = EmptyCell]]

\* lines 322-326, target(): the work of thread n returns or raises
target(w, n, outcome) ==
    [threads |-> [w.threads EXCEPT ![n].state =
                     IF outcome = "ok" THEN "returned" ELSE "raised"],
     cells |-> [w.cells EXCEPT ![cell_of(n)] =
                     IF outcome = "ok" THEN [@ EXCEPT !.result = "out"]
                     ELSE [@ EXCEPT !.exception = "boom"]]]

\* a caller that does not look whether the thread is still alive
joined_not_alive(w, n) ==
    IF w.cells[cell_of(n)].exception # None THEN "raised" ELSE "returned"

\* lines 330-338: what the caller of the n-th call gets after the join
joined(w, n) ==
    IF w.threads[n].state = "running" THEN "timeout"
    ELSE IF w.cells[cell_of(n)].exception # None THEN "raised"
    ELSE "returned"

\* the work's ways to end that a configuration allows
Outcomes(c) == {"ok", "error"} \cup (IF c.timeouts THEN {"timeout"} ELSE {})

\* the engine after its constructor, with the batches it is about to be given
NewEngine ==
    /\ fd = [a \in {"main"} \cup Range(TaskIdsOf(cfg.batches)) |-> "none"]
    /\ st = [a \in {"main"} \cup Range(TaskIdsOf(cfg.batches)) |-> Idle]
    /\ clock = 1
    /\ committed = fs.final
    /\ out = NotCalled
    /\ hist = <<>>
    /\ cancelled = FALSE
    /\ pause_requested = FALSE
    /\ mpc = "init"
    /\ start_batch = 0
    /\ bi = 0
    /\ ti = 0
    /\ bres = <<>>
    /\ results = <<>>
    /\ collected = {}
    /\ tpc = [t \in Range(TaskIdsOf(cfg.batches)) |-> "idle"]
    /\ retry_count = [t \in Range(TaskIdsOf(cfg.batches)) |-> 0]
    /\ attempts = [t \in Range(TaskIdsOf(cfg.batches)) |-> 0]
    /\ work = [t \in Range(TaskIdsOf(cfg.batches)) |-> NoWork]
    /\ tres = [t \in Range(TaskIdsOf(cfg.batches)) |-> NoTaskResult]
    /\ told = [t \in Range(TaskIdsOf(cfg.batches)) |-> NotTold]
    /\ fut = [t \in Range(TaskIdsOf(cfg.batches)) |-> "none"]

Init ==
    /\ cfg \in Configs
    /\ fs = NoFiles
    /\ args = <<>>
    /\ NewEngine

(***************************************************************************)
(* execute_task, run by the controlling thread in a serial batch and by a  *)
(* worker of the pool in a parallel one.                                   *)
(***************************************************************************)
\* lines 188-202: up to the load of update_task_status(IN_PROGRESS)
StartTask(t) ==
    /\ tpc' = [tpc EXCEPT ![t] = "in_progress"]
    /\ retry_count' = [retry_count EXCEPT ![t] = 0]
    /\ st' = [st EXCEPT ![t] =
                begin_update_task_status(fs.final, t, "in_progress", None, None, clock)]

\* the end of execute_task: the terminal status is on its way to the store
Settle(t, status, error, result) ==
    /\ st' = [st EXCEPT ![t] =
                begin_update_task_status(fs.final, t, status, error, result, clock)]
    /\ told' = [told EXCEPT ![t].store = @ + 1]

\* line 208: the check of the flag before an attempt
attempt_never_cancelled(flag) == FALSE

attempt_cancelled(flag) == flag

\* lines 207-221: the head of a turn of the while loop: the flag is checked,
\* then the work is invoked
Attempt(t) ==
    /\ \/ tpc[t] = "in_progress" /\ st[t].pc = "ret"
       \/ tpc[t] = "retry"
    /\ attempt_cancelled(cancelled) \/ attempts[t] < MaxAttempts
    /\ st' = [st EXCEPT ![t] = Idle]
    /\ IF attempt_cancelled(cancelled)
       THEN /\ tres' = [tres EXCEPT ![t] =
                          TaskResult(t, "cancelled", None, "Execution cancelled by user",
                                     retry_count[t])]
            /\ tpc' = [tpc EXCEPT ![t] = "done"]
            /\ fut' = [fut EXCEPT ![t] = IF @ = "running" THEN "done" ELSE @]
            /\ UNCHANGED <<attempts, work>>
       ELSE /\ attempts' = [attempts EXCEPT ![t] = @ + 1]
            /\ work' = [work EXCEPT ![t] = execute_with_timeout(@)]
            /\ tpc' = [tpc EXCEPT ![t] = "working"]
            /\ UNCHANGED <<tres, fut>>
    /\ UNCHANGED <<fs, fd, clock, committed, callVars, cfg, cancelled, pause_requested, mainVars,
                   retry_count, told>>

\* lines 221-291: the work returns or raises; the rest of the turn, through the
\* decision on an error
WorkEnds(t) ==
    /\ tpc[t] = "working"
    /\ \E outcome \in Outcomes(cfg) :
         LET n == Len(work[t].threads)
             w == IF outcome = "timeout" THEN work[t] ELSE target(work[t], n, outcome)
         IN
         /\ work' = [work EXCEPT ![t] = [w EXCEPT !.threads[n].seen = joined(w, n)]]
         /\ IF joined(w, n) = "returned" /\ Logs(cfg, "log_task_complete")
            THEN \* lines 224-242
                 /\ Settle(t, "completed", None, "out")
                 /\ tpc' = [tpc EXCEPT ![t] = "success"]
                 /\ UNCHANGED <<retry_count, cancelled, fut>>
            ELSE IF ~Logs(cfg, "log_error")
            THEN \* lines 251 and 255: the logger's log_error raises
                 /\ tpc' = [tpc EXCEPT ![t] = "raised"]
                 /\ fut' = [fut EXCEPT ![t] = IF @ = "running" THEN "done" ELSE @]
                 /\ UNCHANGED <<st, retry_count, cancelled, told>>
            ELSE \E decision \in handle_error(cfg, retry_count[t]) :
                 CASE decision = "retry" ->
                         /\ retry_count' = [retry_count EXCEPT ![t] = @ + 1]
                         /\ IF retry_count[t] + 1 <= cfg.max_retries
                            THEN /\ tpc' = [tpc EXCEPT ![t] = "retry"]
                                 /\ UNCHANGED <<st, told>>
                            ELSE /\ tpc' = [tpc EXCEPT ![t] = "failed"]
                                 /\ Settle(t, "failed", "boom", None)
                         /\ UNCHANGED <<cancelled, fut>>
                   [] decision = "skip" ->
                         /\ tpc' = [tpc EXCEPT ![t] = "skipped"]
                         /\ Settle(t, "skipped", "boom", None)
                         /\ UNCHANGED <<retry_count, cancelled, fut>>
                   [] decision = "abort" ->
                         /\ cancelled' = TRUE
                         /\ tpc' = [tpc EXCEPT ![t] = "failed"]
                         /\ Settle(t, "failed", "boom", None)
                         /\ UNCHANGED <<retry_count, fut>>
                   [] OTHER ->
                         \* no branch of lines 263-291 is taken: the next turn of
                         \* the while loop, with the same retry_count
                         /\ tpc' = [tpc EXCEPT ![t] = "retry"]
                         /\ UNCHANGED <<st, retry_count, cancelled, told, fut>>
    /\ UNCHANGED <<fs, fd, clock, committed, callVars, cfg, pause_requested, mainVars,
                   attempts, tres>>

\* the work of a call that timed out returns or raises, after its caller has
\* stopped waiting for it
LateWorkEnds(t) ==
    /\ \E n \in 1..Len(work[t].threads), outcome \in {"ok", "error"} :
         /\ work[t].threads[n].state = "running"
         /\ work[t].threads[n].seen = "timeout"
         /\ work' = [work EXCEPT ![t] = target(@, n, outcome)]
    /\ UNCHANGED <<storeVars, callVars, cfg, cancelled, pause_requested, mainVars, tpc, retry_count,
                   attempts, tres, told, fut>>

\* lines 244-247, 284-287, 310-313: the terminal status is persisted; the
\* task-complete callback, and return
ReturnTask(t) ==
    /\ tpc[t] \in {"success", "skipped", "failed"}
    /\ st[t].pc = "ret"
    /\ tres' = [tres EXCEPT ![t] =
                  TaskResult(t, tpc[t],
                             IF tpc[t] = "success" THEN "out" ELSE None,
                             IF tpc[t] = "success" THEN None ELSE "boom",
                             retry_count[t])]
    /\ tpc' = [tpc EXCEPT ![t] = "done"]
    /\ fut' = [fut EXCEPT ![t] = IF @ = "running" THEN "done" ELSE @]
    /\ st' = [st EXCEPT ![t] = Idle]
    /\ told' = [told EXCEPT ![t].callback = @ + 1]
    /\ UNCHANGED <<fs, fd, clock, committed, callVars, cfg, cancelled, pause_requested, mainVars,
                   retry_count, attempts, work>>

(***************************************************************************)
(* execute_all_batches and the batch executors, run by the controlling     *)
(* thread.  Its own store calls are whole steps: no task runs during them. *)
(***************************************************************************)
BatchResult(batch, status, task_results) ==
    [batch_id |-> batch.id, batch_type |-> batch.type, status |-> status,
     task_results |-> task_results]

\* lines 599-623: load or create the checkpoint, find where to start
ExecuteAllBatches ==
    /\ mpc = "init"
    /\ LET found == cfg.resume /\ load_checkpoint(fs.final).found
           f == IF found THEN fs
                ELSE create_checkpoint(fs, Feature, cfg.batches, clock)
           resume_point == get_resume_point(f.final)
       IN  /\ fs' = f
           /\ committed' = f.final
           /\ start_batch' = IF cfg.resume /\ resume_point.found
                             THEN resume_point.point[1].batch_id - 1
                             ELSE 0
    /\ mpc' = IF Logs(cfg, "log_execution_start") THEN "loop" ELSE "raised"
    /\ bi' = 1
    /\ UNCHANGED <<fd, st, clock, callVars, cfg, cancelled, pause_requested, ti, bres, results,
                   collected, taskVars, fut>>

\* a run that goes on to the next batch whatever the flag
run_never_stops(flag) == FALSE

\* lines 630-631: if self._cancelled: break
run_stops(flag) == flag

\* lines 626-649, 658-670 and the head of the batch executor, lines 399-409 and
\* 485-496: the next batch of the list is skipped or entered, or the run ends
NextBatch ==
    /\ mpc = "loop"
    /\ IF bi <= Len(cfg.batches) /\ bi - 1 < start_batch
       THEN /\ bi' = bi + 1
            /\ UNCHANGED <<fs, committed, mpc, ti, bres, collected>>
       ELSE IF bi > Len(cfg.batches) \/ run_stops(cancelled)
       THEN /\ mpc' = IF Logs(cfg, "log_execution_complete") THEN "done" ELSE "raised"
            /\ UNCHANGED <<fs, committed, bi, ti, bres, collected>>
       ELSE IF ~Logs(cfg, "log_batch_start")
       THEN /\ mpc' = "raised"
            /\ UNCHANGED <<fs, committed, bi, ti, bres, collected>>
       ELSE /\ fs' = update_batch_status(fs, CurBatch.id, "in_progress", clock).fs
            /\ committed' = fs'.final
            /\ mpc' = IF CurBatch.type = "parallel" THEN "submit" ELSE "serial"
            /\ ti' = 1
            /\ bres' = <<>>
            /\ collected' = {}
            /\ UNCHANGED bi
    /\ UNCHANGED <<fd, st, clock, callVars, cfg, cancelled, pause_requested, start_batch, results,
                   taskVars, fut>>

\* execute_batch_serial, lines 411-420: the head of the loop and the call
SerialStep ==
    /\ mpc = "serial"
    /\ IF ti > Len(CurBatch.tasks) \/ serial_stops(cancelled, NoTaskResult, cfg)
       THEN /\ mpc' = "batch_end"
            /\ UNCHANGED <<st, tpc, retry_count>>
       ELSE /\ mpc' = "serial_wait"
            /\ StartTask(CurTask)
    /\ UNCHANGED <<fs, fd, clock, committed, callVars, cfg, cancelled, pause_requested, start_batch,
                   bi, ti, bres, results, collected, attempts, work, tres,
                   told, fut>>

\* a caller that does not wait for the call to return
task_returned_early(pc) == TRUE

\* line 415: the call of execute_task has returned or raised
task_returned(pc) == pc \in {"done", "raised"}

\* execute_batch_serial, lines 421-437: the task has returned
SerialCollect ==
    /\ mpc = "serial_wait"
    /\ task_returned(tpc[CurTask])
    /\ IF tpc[CurTask] = "raised"
       THEN mpc' = "raised" /\ UNCHANGED <<bres, ti>>
       ELSE /\ bres' = Append(bres, tres[CurTask])
            /\ IF serial_stops(FALSE, tres[CurTask], cfg)
               THEN mpc' = "batch_end" /\ UNCHANGED ti
               ELSE mpc' = "serial" /\ ti' = ti + 1
    /\ UNCHANGED <<storeVars, callVars, cfg, cancelled, pause_requested, start_batch, bi, results,
                   collected, taskVars, fut>>

\* execute_batch_parallel, lines 504-515: the head of the loop and the submit
Submit ==
    /\ mpc = "submit"
    /\ IF ti > Len(CurBatch.tasks) \/ cancelled
       THEN mpc' = "collect" /\ UNCHANGED <<ti, fut>>
       ELSE /\ fut' = [fut EXCEPT ![CurTask] = "queued"]
            /\ ti' = ti + 1
            /\ UNCHANGED mpc
    /\ UNCHANGED <<storeVars, callVars, cfg, cancelled, pause_requested, start_batch, bi, bres,
                   results, collected, taskVars>>

Running == {t \in Tasks : fut[t] = "running"}

\* the queue of the pool is served in the order of submission
FirstQueued(t) ==
    /\ fut[t] = "queued"
    /\ \E k \in 1..Len(CurBatch.tasks) :
          /\ CurBatch.tasks[k].id = t
          /\ \A j \in 1..(k - 1) : fut[CurBatch.tasks[j].id] # "queued"

\* a pool that starts a thread for every task submitted
worker_always_free(running, max_workers) == TRUE

\* ThreadPoolExecutor(max_workers=max_parallel): at most max_workers threads
worker_free(running, max_workers) == Cardinality(running) < max_workers

\* a free worker takes a task
WorkerStart(t) ==
    /\ FirstQueued(t)
    /\ worker_free(Running, cfg.max_parallel_tasks)
    /\ fut' = [fut EXCEPT ![t] = "running"]
    /\ StartTask(t)
    /\ UNCHANGED <<fs, fd, clock, committed, callVars, cfg, cancelled, pause_requested, mainVars,
                   attempts, work, tres, told>>

Submitted == {t \in Tasks : fut[t] # "none"}

\* lines 518-547: as_completed yields a finished future
Collect(t) ==
    /\ mpc = "collect"
    /\ t \in Submitted \ collected
    /\ fut[t] \in {"done", "cancelled"}
    /\ IF cancelled
       THEN /\ fut' = [u \in Tasks |-> IF fut[u] = "queued" THEN "cancelled" ELSE fut[u]]
            /\ mpc' = "pool_exit"
            /\ UNCHANGED <<bres, collected>>
       ELSE /\ bres' = Append(bres, IF tpc[t] = "raised"
                                    THEN TaskResult(t, "failed", None, "raised", 0)
                                    ELSE tres[t])
            /\ collected' = collected \cup {t}
            /\ UNCHANGED <<fut, mpc>>
    /\ UNCHANGED <<storeVars, callVars, cfg, cancelled, pause_requested, start_batch, bi, ti, results,
                   taskVars>>

\* line 518: as_completed ends when it has yielded every future it was given
all_yielded(yielded, given) == yielded = given

CollectEnd ==
    /\ mpc = "collect"
    /\ all_yielded(collected, Submitted)
    /\ mpc' = "pool_exit"
    /\ UNCHANGED <<storeVars, callVars, cfg, cancelled, pause_requested, start_batch, bi, ti, bres,
                   results, collected, taskVars, fut>>

\* a pool that is left without waiting for its workers
pool_left_at_once(futures) == TRUE

\* ThreadPoolExecutor.__exit__: shutdown(wait=True), every worker has ended
pool_shut_down(futures) ==
    \A t \in DOMAIN futures : futures[t] \notin {"queued", "running"}

\* line 499: leaving the with block waits for the workers
PoolExit ==
    /\ mpc \in {"pool_exit", "submit_raised"}
    /\ pool_shut_down(fut)
    /\ mpc' = IF mpc = "pool_exit" THEN "batch_end" ELSE "raised"
    /\ UNCHANGED <<storeVars, callVars, cfg, cancelled, pause_requested, start_batch, bi, ti, bres,
                   results, collected, taskVars, fut>>

\* lines 439-464 and 551-576, then lines 651-656 of execute_all_batches
BatchEnd ==
    /\ mpc = "batch_end"
    /\ IF ~Logs(cfg, "log_batch_complete")
       THEN /\ mpc' = "raised"
            /\ UNCHANGED <<fs, committed, results, bi>>
       ELSE LET status == batch_status(cancelled, bres) IN
            /\ fs' = update_batch_status(fs, CurBatch.id, status, clock).fs
            /\ committed' = fs'.final
            /\ results' = Append(results, BatchResult(CurBatch, status, bres))
            /\ IF status = "failed" /\ cfg.error_strategy = "fail_fast"
               THEN mpc' = "done" /\ UNCHANGED bi
               ELSE mpc' = "loop" /\ bi' = bi + 1
    /\ UNCHANGED <<fd, st, clock, callVars, cfg, cancelled, pause_requested, start_batch, ti, bres,
                   collected, taskVars, fut>>

\* cancel(), lines 676-680, or the signal handler, lines 127-129.  cancel() also
\* shuts the pool down: a submit that has passed the check of the flag raises.
Cancel ==
    /\ ~cancelled
    /\ mpc \notin {"none", "done", "raised", "submit_raised"}
    /\ cancelled' = TRUE
    /\ \/ UNCHANGED mpc
       \/ /\ mpc = "submit"
          /\ ti <= Len(CurBatch.tasks)
          /\ mpc' = "submit_raised"
    /\ UNCHANGED <<storeVars, callVars, cfg, pause_requested, start_batch, bi, ti, bres,
                   results,
                   collected, taskVars, fut>>

Next ==
    \/ ExecuteAllBatches
    \/ NextBatch
    \/ SerialStep
    \/ SerialCollect
    \/ Submit
    \/ \E t \in Tasks : WorkerStart(t)
    \/ \E t \in Tasks : Collect(t)
    \/ CollectEnd
    \/ PoolExit
    \/ BatchEnd
    \/ Cancel
    \/ \E t \in Tasks : Attempt(t)
    \/ \E t \in Tasks : WorkEnds(t)
    \/ \E t \in Tasks : ReturnTask(t)
    \/ \E t \in Tasks : SaveOpen(t)
    \/ \E t \in Tasks : SaveWrite(t)
    \/ \E t \in Tasks : SaveRename(t)

Spec == Init /\ [][Next]_vars

(***************************************************************************)
(* Claims about the engine.                                                *)
(***************************************************************************)
BatchTasks(k) == {cfg.batches[k].tasks[j].id : j \in 1..Len(cfg.batches[k].tasks)}

\* the status of task t in the checkpoint a reader loads, "unreadable" if none
PersistedStatus(t) ==
    IF Loaded.found /\ HasTask(Loaded.cp[1], t)
    THEN LET i == BatchOfTask(Loaded.cp[1], t)
         IN  Loaded.cp[1].batches[i].tasks[IndexOfTask(Loaded.cp[1].batches[i], t)].status
    ELSE "unreadable"

BetweenLoadAndSave == {a \in DOMAIN st : st[a].pc \in {"open", "write", "rename"}}

\* C2: in every reachable state, also while tasks of a parallel batch save at
\* the same time, the final path holds a complete document written by one save.
C2_FinalIsCompleteSnapshot ==
    mpc \notin {"none", "init"} => (fs.final.kind = "doc" /\ Loaded.found)

\* C3: two callers are never both between the load and the save of an update
\* of the feature's checkpoint.
C3_UpdatesMutuallyExclusive == Cardinality(BetweenLoadAndSave) <= 1

\* C4: under the retry strategy a task whose work fails on every attempt is
\* attempted max_retries + 1 times and ends failed, persisted failed, with
\* retry_count = max_retries.
C4_RetriesThenFailed ==
    \A t \in Tasks :
        ( /\ cfg.error_strategy = "retry"
          /\ tpc[t] = "done"
          /\ tres[t].result \notin {"success", "cancelled"} )
        => /\ attempts[t] = cfg.max_retries + 1
           /\ tres[t].result = "failed"
           /\ tres[t].retry_count = cfg.max_retries

\* the work of t has failed and t is not running it again
WorkFailed(t) ==
    /\ attempts[t] > 0
    /\ \/ tpc[t] \in {"failed", "skipped"}
       \/ tpc[t] = "done" /\ tres[t].result \in {"failed", "skipped"}

SerialFailFast ==
    /\ mpc # "none"
    /\ cfg.batches[1].type = "serial"
    /\ cfg.error_strategy = "fail_fast"

\* C5: in a serial batch under fail_fast the first task whose work fails ends
\* failed and halts the batch: no later task is started, every later task stays
\* persisted pending.
C5_FailFastHaltsSerialBatch ==
    SerialFailFast =>
        \A i \in 1..Len(cfg.batches[1].tasks) :
            LET t == cfg.batches[1].tasks[i].id IN
            WorkFailed(t) =>
                /\ tpc[t] = "done" =>
                      (tres[t].result = "failed" /\ PersistedStatus(t) = "failed")
                /\ \A j \in (i + 1)..Len(cfg.batches[1].tasks) :
                      LET u == cfg.batches[1].tasks[j].id IN
                      /\ tpc[u] = "idle"
                      /\ attempts[u] = 0
                      /\ PersistedStatus(u) = "pending"
                /\ \A k \in 1..Len(results) : Len(results[k].task_results) = i

C5_Witness ==
    /\ SerialFailFast
    /\ mpc = "done"
    /\ tres["1.1"].result = "success"
    /\ tres["1.2"].result = "failed"
    /\ PersistedStatus("1.2") = "failed"
    /\ PersistedStatus("1.3") = "pending"
    /\ Len(results) = 1

\* C6: the batch status returned and persisted is completed exactly when every
\* task of the batch succeeded, failed exactly when none succeeded and at least
\* one failed, and partial otherwise.
C6_StatusFromOutcomes ==
    \A k \in 1..Len(results) :
        LET r == results[k]
            i == CHOOSE i \in 1..Len(cfg.batches) : cfg.batches[i].id = r.batch_id
            all == \A t \in BatchTasks(i) : tres[t].result = "success"
            none == /\ \A t \in BatchTasks(i) : tres[t].result # "success"
                    /\ \E t \in BatchTasks(i) : tres[t].result = "failed"
        IN  /\ r.status = (IF all THEN "completed" ELSE IF none THEN "failed" ELSE "partial")
            /\ Loaded.found => Loaded.cp[1].batches[i].status = r.status

ResultIds(r) == [j \in 1..Len(r.task_results) |-> r.task_results[j].task_id]

\* C7: execute_batch_parallel, having submitted its N tasks to the pool, returns
\* exactly N task results, each task id once, whatever the completion order.
C7_ParallelReturnsAll ==
    \A k \in 1..Len(results) :
        ( /\ results[k].batch_type = "parallel"
          /\ \A t \in BatchTasks(k) : fut[t] # "none" )
        => /\ Len(results[k].task_results) = Len(cfg.batches[k].tasks)
           /\ Range(ResultIds(results[k])) = BatchTasks(k)

(***************************************************************************)
(* Claims about the checkpoints the engine leaves.                         *)
(***************************************************************************)
\* the tasks of a checkpoint, all batches
TasksOf(cp) == Flatten([i \in 1..Len(cp.batches) |-> cp.batches[i].tasks])

\* C11: in every persisted checkpoint a task's end_time is set if and only if
\* the task's status is completed, failed or skipped.
C11_EndTimeIffTerminal ==
    Loaded.found =>
        \A j \in 1..Len(TasksOf(Loaded.cp[1])) :
            LET task == TasksOf(Loaded.cp[1])[j]
            IN  (task.end_time # 0) <=> (task.status \in TerminalStatus)

(***************************************************************************)
(* SpecBatch: up to MaxBatchCalls calls of update_batch_status, with any   *)
(* batch id and status, on the fresh checkpoint of a two-batch             *)
(* configuration.  hist holds the calls and what they returned.            *)
(***************************************************************************)
BatchConfig ==
    << BatchSpec(1, "A", "serial", <<"1.1">>), BatchSpec(2, "B", "parallel", <<>>) >>

InitBatch ==
    /\ fs \in {NoFiles, create_checkpoint(NoFiles, Feature, BatchConfig, 1)}
    /\ IdleStore
    /\ clock = 1
    /\ out = NotCalled
    /\ args = <<>>
    /\ hist = <<>>

UpdateBatchStatus ==
    /\ Len(hist) < MaxBatchCalls
    /\ \E b \in {1, 2, 3}, s \in BatchStatus :
         LET r == update_batch_status(fs, b, s, clock)
         IN  /\ fs' = r.fs
             /\ out' = Returned(r.ret)
             /\ hist' = Append(hist, [batch_id |-> b, status |-> s, ret |-> r.ret])
    /\ UNCHANGED <<fd, st, clock, committed, args, engineVars>>

NextBatchCall == UpdateBatchStatus

SpecBatch == InitBatch /\ [][NextBatchCall]_vars

\* the calls that made a batch in_progress
Entries(h) == {k \in 1..Len(h) : h[k].status = "in_progress" /\ h[k].ret}

\* C12: in every persisted checkpoint current_batch is the id of the batch whose
\* status most recently became in_progress, and its initial value 0 while no
\* batch has been entered; other status updates leave it unchanged.
C12_CurrentBatchIsLastEntered ==
    Loaded.found =>
        Loaded.cp[1].current_batch =
            (IF Entries(hist) = {} THEN 0
             ELSE hist[CHOOSE k \in Entries(hist) : \A l \in Entries(hist) : l <= k].batch_id)

\* batch 1 entered, batch 2 entered, batch 1 completed
C12_Witness ==
    /\ Len(hist) = 3
    /\ [k \in 1..3 |-> hist[k].batch_id] = <<1, 2, 1>>
    /\ [k \in 1..3 |-> hist[k].status] = <<"in_progress", "in_progress", "completed">>
    /\ \A k \in 1..3 : hist[k].ret
    /\ Loaded.found
    /\ Loaded.cp[1].current_batch = 2

(***************************************************************************)
(* SpecRun: execute_all_batches on a serial batch followed by a parallel   *)
(* one, started on the checkpoint an earlier run of the same batches left, *)
(* or on none.  args.stored is the final path's content at the start.      *)
(***************************************************************************)
RunBatches ==
    << BatchSpec(1, "A", "serial", <<"1.1">>),
       BatchSpec(2, "B", "parallel", <<"2.1", "2.2">>) >>

RunConfigs ==
    [error_strategy : {"skip", "fail_fast"}, max_retries : {0},
     max_parallel_tasks : 1..MaxParallel, has_callback : {FALSE},
     answers : {DocumentedAnswers}, timeouts : {FALSE},
     logger : {"sink"}, batches : {RunBatches}, resume : BOOLEAN]

\* the statuses an earlier run left on the tasks of a batch it left with status s
LeftOnTasks(s) ==
    CASE s = "completed" -> "completed"
      [] s = "failed" -> "failed"
      [] OTHER -> "pending"

LeftBehind(batches_config) ==
    { WithBatchStatuses(
        WithTaskStatuses(
            create_checkpoint(NoFiles, Feature, batches_config, 1),
            TaskIdsOf(batches_config),
            [t \in Range(TaskIdsOf(batches_config)) |->
                LET i == CHOOSE i \in 1..Len(batches_config) :
                            \E j \in 1..Len(batches_config[i].tasks) :
                                batches_config[i].tasks[j].id = t
                IN  LeftOnTasks(bs[i])],
            1),
        batches_config, 1, bs, 1) :
      bs \in [1..Len(batches_config) -> {"pending", "completed", "partial", "failed"}] }

\* without resume the stored checkpoint is only overwritten: one is taken
InitRun ==
    /\ cfg \in RunConfigs
    /\ fs \in LeftBehind(cfg.batches) \cup {NoFiles}
    /\ (~cfg.resume /\ fs # NoFiles) =>
          \A i \in 1..Len(cfg.batches) :
              load_checkpoint(fs.final).cp[1].batches[i].status = "completed"
    /\ args = [stored |-> fs.final]
    /\ NewEngine

SpecRun == InitRun /\ [][Next]_vars

Stored == load_checkpoint(args.stored)

\* C13: when execute_all_batches is called with resume and a checkpoint exists,
\* no task of a batch the checkpoint holds as completed has its work invoked.
C13_CompletedBatchNotRunAgain ==
    (cfg.resume /\ Stored.found) =>
        \A i \in 1..Len(cfg.batches) :
            Stored.cp[1].batches[i].status = "completed" =>
                \A t \in BatchTasks(i) : attempts[t] = 0

(***************************************************************************)
(* Claims about execute_task and the batch executors.                      *)
(***************************************************************************)
\* C14: every call of execute_task that returns, whatever its outcome, has sent
\* exactly one terminal status of its task to the store and has made the
\* task-complete callback exactly once.
C14_OneTerminalReportPerTask ==
    \A t \in Tasks :
        tpc[t] = "done" => (told[t].store = 1 /\ told[t].callback = 1)

(***************************************************************************)
(* SpecTask: the host calls execute_task itself, one call at a time, for   *)
(* the tasks of a checkpoint it has created.  cancel() may come at any     *)
(* time.                                                                   *)
(***************************************************************************)
TaskConfigs ==
    { c \in [error_strategy : ErrorStrategy, max_retries : 0..MaxRetries,
             max_parallel_tasks : {1}, has_callback : BOOLEAN,
             answers : {DocumentedAnswers, CallbackAnswers}, timeouts : BOOLEAN,
             logger : {"ExecutionLogger", "sink"}, batches : {UpdateConfig},
             resume : {TRUE}] :
        /\ c.has_callback => c.error_strategy = "ask"
        /\ ~c.has_callback => c.answers = DocumentedAnswers
        \* work that outlasts the timeout is followed through one retry
        /\ c.timeouts => /\ c.max_retries <= 1
                         /\ c.answers = DocumentedAnswers
                         /\ c.logger = "sink" }

InitTask ==
    /\ cfg \in TaskConfigs
    /\ fs = create_checkpoint(NoFiles, Feature, cfg.batches, 1)
    /\ args = <<>>
    /\ NewEngine

\* the call of execute_task, lines 167-202
CallExecuteTask(t) ==
    /\ \A u \in Tasks : tpc[u] \in {"idle", "done", "raised"}
    /\ tpc[t] = "idle"
    /\ StartTask(t)
    /\ UNCHANGED <<fs, fd, clock, committed, callVars, cfg, cancelled, pause_requested, mainVars,
                   attempts, work, tres, told, fut>>

NextTask ==
    \/ \E t \in Tasks : CallExecuteTask(t)
    \/ \E t \in Tasks : Attempt(t)
    \/ \E t \in Tasks : WorkEnds(t)
    \/ \E t \in Tasks : LateWorkEnds(t)
    \/ \E t \in Tasks : ReturnTask(t)
    \/ \E t \in Tasks : SaveOpen(t)
    \/ \E t \in Tasks : SaveWrite(t)
    \/ \E t \in Tasks : SaveRename(t)
    \/ Cancel

SpecTask == InitTask /\ [][NextTask]_vars

\* C15: a failure of the work never leaves execute_task as an exception: the
\* call ends with a result for the task.
C15_WorkFailureNeverPropagates ==
    \A t \in Tasks : tpc[t] # "raised"

(***************************************************************************)
(* SpecResolver: _handle_error applied once, for every strategy, retry     *)
(* count and max_retries up to MaxRetries + 1, with and without a decision *)
(* callback, in an engine that is idle.                                    *)
(***************************************************************************)
ResolverConfigs ==
    [error_strategy : ErrorStrategy, max_retries : 0..(MaxRetries + 1),
     max_parallel_tasks : {1}, has_callback : BOOLEAN,
     answers : {CallbackAnswers}, timeouts : {FALSE},
     logger : {"sink"}, batches : {UpdateConfig}, resume : {TRUE}]

InitResolver ==
    /\ cfg \in ResolverConfigs
    /\ fs = create_checkpoint(NoFiles, Feature, cfg.batches, 1)
    /\ args \in [retry_count : 0..(MaxRetries + 1), answer : CallbackAnswers]
    /\ NewEngine

HandleError ==
    /\ ~out.called
    /\ out' = Returned(handle_error_given(cfg, args.retry_count, args.answer))
    /\ UNCHANGED <<storeVars, args, hist, engineVars>>

NextResolver == HandleError

SpecResolver == InitResolver /\ [][NextResolver]_vars

\* C16: the resolver returns, under retry, "retry" when retry_count <
\* max_retries and "skip" otherwise; under skip, "skip"; under fail_fast,
\* "abort"; under ask, the decision callback's answer, or the retry strategy's
\* answer when no callback is registered; and it changes no engine or
\* checkpoint state.
C16_ResolverByStrategy ==
    [][ out'.called =>
          /\ out'.value[1] =
               LET as_retry == IF args.retry_count < cfg.max_retries
                               THEN "retry" ELSE "skip"
               IN  CASE cfg.error_strategy = "retry" -> as_retry
                     [] cfg.error_strategy = "skip" -> "skip"
                     [] cfg.error_strategy = "fail_fast" -> "abort"
                     [] cfg.error_strategy = "ask" ->
                           IF cfg.has_callback THEN args.answer ELSE as_retry
          /\ UNCHANGED <<storeVars, engineVars>> ]_vars

\* retry with the retries used up
C16_Witness ==
    /\ out.called
    /\ cfg.error_strategy = "retry"
    /\ cfg.max_retries = 2
    /\ args.retry_count = 2
    /\ out.value[1] = "skip"

\* the status update_task_status is given with a result
StatusOfResult(result) ==
    CASE result = "success" -> "completed"
      [] result = "skipped" -> "skipped"
      [] result = "failed" -> "failed"
      [] OTHER -> "none"

\* C17: within a serial batch, a task is persisted in_progress and its work
\* started only after every task before it in the list has returned with its
\* final outcome and that terminal status is persisted.
C17_SerialInListOrder ==
    \A k \in 1..Len(cfg.batches) :
        cfg.batches[k].type = "serial" =>
            \A j \in 1..Len(cfg.batches[k].tasks) :
                LET u == cfg.batches[k].tasks[j].id IN
                /\ (tpc[u] = "idle" /\ Loaded.found) => PersistedStatus(u) = "pending"
                /\ tpc[u] # "idle" =>
                     \A i \in 1..(j - 1) :
                         LET t == cfg.batches[k].tasks[i].id IN
                         /\ tpc[t] = "done"
                         /\ tres[t].result \in {"success", "skipped", "failed"}
                         /\ PersistedStatus(t) = StatusOfResult(tres[t].result)

\* the third task is at work after the first succeeded and the second was skipped
C17_Witness ==
    /\ cfg.batches[1].type = "serial"
    /\ tres["1.1"].result = "success"
    /\ tres["1.2"].result = "skipped"
    /\ tpc["1.3"] = "working"
    /\ PersistedStatus("1.2") = "skipped"
    /\ PersistedStatus("1.3") = "in_progress"

\* the tasks whose execute_task call has started and not returned
InExecuteTask == {t \in Tasks : tpc[t] \notin {"idle", "done", "raised"}}

\* C18: during a parallel batch at most max_parallel_tasks tasks are inside
\* execute_task at any time.
C18_AtMostMaxParallel ==
    (mpc \in {"submit", "collect", "pool_exit", "submit_raised"}) =>
        Cardinality(InExecuteTask) <= cfg.max_parallel_tasks

\* two tasks submitted to a pool of one worker: one at work, one waiting
C18_Witness ==
    /\ mpc = "collect"
    /\ cfg.max_parallel_tasks = 1
    /\ tpc["1.1"] = "working"
    /\ fut["1.2"] = "queued"

\* C19: once the cancellation flag is set, no step invokes work: a task whose
\* check before an attempt comes then returns cancelled; a serial batch starts
\* no further task; no further batch is entered; and work that is running is
\* left to end, its outcome handled as without the flag.
C19_CancellationIsCooperative ==
    [][ cancelled =>
          /\ attempts' = attempts
          /\ \A t \in Tasks :
                /\ (tpc[t] \in {"in_progress", "retry"} /\ tpc'[t] # tpc[t]) =>
                      (tpc'[t] = "done" /\ tres'[t].result = "cancelled")
                /\ tpc[t] = "working" =>
                      tpc'[t] \in {"working", "success", "skipped", "failed", "retry"}
          /\ \A k \in 1..Len(cfg.batches) :
                cfg.batches[k].type = "serial" =>
                    \A t \in BatchTasks(k) : tpc[t] = "idle" => tpc'[t] = "idle"
          /\ mpc = "loop" => mpc' \in {"loop", "done"} ]_vars

\* both tasks of the parallel batch entered, the flag set while the first is at
\* work and before the second's check
C19_Witness ==
    /\ cancelled
    /\ tpc["2.1"] = "working"
    /\ tres["2.2"].result = "cancelled"
    /\ attempts["2.2"] = 0

(***************************************************************************)
(* SpecLoad: load_checkpoint on what the checkpoint path can hold: no      *)
(* file, an empty or cut file, a JSON text that is not an object, every    *)
(* stored checkpoint of a one-batch configuration, and those documents     *)
(* with one key removed or one status replaced by a value of no enum.      *)
(***************************************************************************)
\* a JSON array at the path
NotAnObject == [kind |-> "array", data |-> <<>>, len |-> 2]

\* a document put at the path by another writer; no action of SpecLoad
\* writes over it, its length is not tracked
Edited(d) == [kind |-> "doc", data |-> <<d>>, len |-> 0]

Without(d, key) == [k \in DOMAIN d \ {key} |-> d[k]]

\* d with its batch i replaced by b
WithBatch(d, i, b) == [d EXCEPT !.batches = [@ EXCEPT ![i] = b]]

\* d with task j of its batch i replaced by t
WithTask(d, i, j, t) ==
    [d EXCEPT !.batches = [@ EXCEPT ![i] = [@ EXCEPT !.tasks = [@ EXCEPT ![j] = t]]]]

EditsOf(d) ==
    { Without(d, key) : key \in DOMAIN d }
    \cup UNION { { WithBatch(d, i, Without(d.batches[i], key)) :
                        key \in DOMAIN d.batches[i] }
                 \cup { WithBatch(d, i, [d.batches[i] EXCEPT !.status = "bogus"]) } :
                 i \in 1..Len(d.batches) }
    \cup UNION { UNION { { WithTask(d, i, j, Without(d.batches[i].tasks[j], key)) :
                              key \in DOMAIN d.batches[i].tasks[j] }
                         \cup { WithTask(d, i, j,
                                   [d.batches[i].tasks[j] EXCEPT !.status = "bogus"]) } :
                         j \in 1..Len(d.batches[i].tasks) } :
                 i \in 1..Len(d.batches) }

LoadContents ==
    {Missing, Empty, Garbled(1), NotAnObject}
    \cup { f.final : f \in StoredCheckpoints(UpdateConfig) }
    \cup UNION { { Edited(e) : e \in EditsOf(f.final.data[1]) } :
                 f \in StoredCheckpoints(UpdateConfig) }

InitLoad ==
    /\ fs \in { [NoFiles EXCEPT !.final = c] : c \in LoadContents }
    /\ IdleStore
    /\ clock = 1
    /\ out = NotCalled
    /\ args = <<>>
    /\ hist = <<>>

LoadCheckpoint ==
    /\ ~out.called
    /\ out' = Returned(load_checkpoint(fs.final))
    /\ UNCHANGED <<storeVars, args, hist, engineVars>>

NextLoad == LoadCheckpoint

SpecLoad == InitLoad /\ [][NextLoad]_vars

\* the keys read with data[...], b[...] and t[...] are all in the document
RequiredPresent(data) ==
    /\ "feature_name" \in DOMAIN data
    /\ "batches" \in DOMAIN data =>
          \A i \in 1..Len(data.batches) :
              LET b == data.batches[i] IN
              /\ {"batch_id", "name", "batch_type", "status"} \subseteq DOMAIN b
              /\ "tasks" \in DOMAIN b =>
                    \A j \in 1..Len(b.tasks) :
                        {"task_id", "name", "executor", "status"} \subseteq DOMAIN b.tasks[j]

\* every status of the document is a value of its enum
StatusesParse(data) ==
    "batches" \in DOMAIN data =>
        \A i \in 1..Len(data.batches) :
            LET b == data.batches[i] IN
            /\ b.status \in BatchStatus
            /\ "tasks" \in DOMAIN b =>
                  \A j \in 1..Len(b.tasks) : b.tasks[j].status \in TaskStatus

\* C20: load_checkpoint never raises; it returns None when the path holds no
\* file, when the content is not a JSON object whose statuses parse, and when
\* a required key is missing; otherwise it returns a checkpoint, that of the
\* document's feature.
C20_LoadNeverRaises ==
    out.called =>
        LET r == out.value[1] IN
        /\ r.raised = "none"
        /\ r.found <=> /\ fs.final.kind = "doc"
                       /\ RequiredPresent(fs.final.data[1])
                       /\ StatusesParse(fs.final.data[1])
        /\ r.found => r.cp[1].feature_name = fs.final.data[1].feature_name

\* C20 witness: a document without its feature_name was loaded
C20_Witness ==
    /\ out.called
    /\ fs.final.kind = "doc"
    /\ "feature_name" \notin DOMAIN fs.final.data[1]
    /\ ~out.value[1].found

(***************************************************************************)
(* get_execution_summary.  A percentage is held in tenths: 1000 is 100.0.  *)
(***************************************************************************)
\* a summary whose percentage is cut to the tenth below
round_down(num, den) == (1000 * num) \div den

\* round(num / den * 100, 1) in tenths, ties to the even tenth
round_1(num, den) ==
    LET q == (1000 * num) \div den
        r == (1000 * num) % den
    IN  IF 2 * r > den THEN q + 1
        ELSE IF 2 * r < den THEN q
        ELSE IF q % 2 = 0 THEN q ELSE q + 1

\* f"{a}/{b}"
Slashed(a, b) == <<a, "/", b>>

CountTasks(cp, status) ==
    SumSeq([i \in 1..Len(cp.batches) |->
              Cardinality({j \in 1..Len(cp.batches[i].tasks) :
                              cp.batches[i].tasks[j].status = status})])

TotalTasks(cp) == SumSeq([i \in 1..Len(cp.batches) |-> Len(cp.batches[i].tasks)])

NoSummary == [found |-> FALSE, summary |-> <<>>]

get_execution_summary(final) ==
    LET l == load_checkpoint(final) IN
    IF ~l.found THEN NoSummary
    ELSE LET checkpoint == l.cp[1]
             total_tasks == TotalTasks(checkpoint)
             completed_tasks == CountTasks(checkpoint, "completed")
             failed_tasks == CountTasks(checkpoint, "failed")
             pending_tasks == CountTasks(checkpoint, "pending")
             completed_batches ==
                 Cardinality({i \in 1..Len(checkpoint.batches) :
                                 checkpoint.batches[i].status = "completed"})
         IN  [found |-> TRUE,
              summary |-> <<
                [feature_name |-> checkpoint.feature_name,
                 progress |->
                    [batches |-> Slashed(completed_batches, checkpoint.total_batches),
                     tasks |-> Slashed(completed_tasks, total_tasks),
                     percentage |-> IF total_tasks > 0
                                    THEN round_1(completed_tasks, total_tasks)
                                    ELSE 0],
                 status |->
                    [completed |-> completed_tasks, failed |-> failed_tasks,
                     pending |-> pending_tasks,
                     in_progress |-> total_tasks - completed_tasks - failed_tasks
                                     - pending_tasks],
                 created_at |-> checkpoint.created_at,
                 updated_at |-> checkpoint.updated_at,
                 has_errors |-> Len(checkpoint.error_log) > 0,
                 error_count |-> Len(checkpoint.error_log)] >>]

(***************************************************************************)
(* SpecSummary: a checkpoint is created for a configuration of no, one or  *)
(* three tasks, up to MaxCalls task updates are made, then the summary is  *)
(* asked for.  args holds the configuration, hist the updates and what     *)
(* they returned.                                                          *)
(***************************************************************************)
SummaryConfigs ==
    { << BatchSpec(1, "A", "serial", <<>>) >>,
      << BatchSpec(1, "A", "serial", <<"1.1">>) >>,
      << BatchSpec(1, "A", "serial", <<"1.1", "1.2">>),
         BatchSpec(2, "B", "parallel", <<"2.1">>) >> }

InitSummary ==
    /\ fs = NoFiles
    /\ IdleStore
    /\ clock = 1
    /\ out = NotCalled
    /\ args \in SummaryConfigs
    /\ hist = <<>>

SummaryCreate ==
    /\ ~out.called
    /\ fs = NoFiles
    /\ fs' = create_checkpoint(fs, Feature, args, clock)
    /\ UNCHANGED <<fd, st, clock, committed, callVars, engineVars>>

SummaryUpdate ==
    /\ ~out.called
    /\ Len(hist) < MaxCalls
    /\ \E t \in Range(TaskIdsOf(args)), s \in TaskStatus, e \in {None, "boom"} :
         LET r == update_task_status(fs, t, s, e, None, clock)
         IN  /\ fs' = r.fs
             /\ hist' = Append(hist, [task_id |-> t, status |-> s, ret |-> r.ret])
    /\ UNCHANGED <<fd, st, clock, committed, out, args, engineVars>>

GetExecutionSummary ==
    /\ ~out.called
    /\ out' = Returned(get_execution_summary(fs.final))
    /\ UNCHANGED <<storeVars, args, hist, engineVars>>

NextSummary == SummaryCreate \/ SummaryUpdate \/ GetExecutionSummary

SpecSummary == InitSummary /\ [][NextSummary]_vars

\* the statuses of the stored tasks, in batch and task order
StoredStatuses == [j \in 1..Len(TasksOf(Loaded.cp[1])) |-> TasksOf(Loaded.cp[1])[j].status]

CompletedStored == Cardinality({j \in 1..Len(StoredStatuses) : StoredStatuses[j] = "completed"})

\* C21 as stated: tasks progress is "<completed>/<total>" and the percentage is
\* 100 times completed/total exactly (0 without tasks).
C21_PercentageIsExactRatio ==
    (out.called /\ out.value[1].found) =>
        LET p == out.value[1].summary[1].progress
            n == Len(StoredStatuses)
        IN  /\ p.tasks = <<CompletedStored, "/", n>>
            /\ p.percentage * n = 1000 * CompletedStored

\* C21: tasks progress is "<completed>/<total>" and the percentage is 100 times
\* completed/total rounded to one decimal (0 without tasks); one task, updated
\* to completed, gives "1/1" and 100.0.
C21_PercentageIsRoundedRatio ==
    (out.called /\ out.value[1].found) =>
        LET p == out.value[1].summary[1].progress
            n == Len(StoredStatuses)
        IN  /\ p.tasks = <<CompletedStored, "/", n>>
            /\ n = 0 => p.percentage = 0
            /\ n > 0 => /\ 2 * n * p.percentage <= 2000 * CompletedStored + n
                        /\ 2 * n * p.percentage >= 2000 * CompletedStored - n
            /\ (n = 1 /\ hist = <<[task_id |-> "1.1", status |-> "completed", ret |-> TRUE]>>) =>
                   (p.tasks = <<1, "/", 1>> /\ p.percentage = 1000)

\* C21 witness: one of three tasks completed, reported as "1/3" and 33.3
C21_Witness ==
    /\ out.called
    /\ out.value[1].found
    /\ out.value[1].summary[1].progress.tasks = <<1, "/", 3>>
    /\ out.value[1].summary[1].progress.percentage = 333

(***************************************************************************)
(* SpecCreate: create_checkpoint for a configuration in args, over no      *)
(* file, a cut file or any stored checkpoint of another configuration,     *)
(* then load_checkpoint.  hist holds the checkpoint each create returned.  *)
(***************************************************************************)
InitCreate ==
    /\ fs \in StoredCheckpoints(UpdateConfig)
              \cup {NoFiles, [NoFiles EXCEPT !.final = Garbled(1)]}
    /\ IdleStore
    /\ clock = 1
    /\ out = NotCalled
    /\ args \in SummaryConfigs
    /\ hist = <<>>

CreateCheckpoint ==
    /\ hist = <<>>
    /\ fs' = create_checkpoint(fs, Feature, args, clock)
    /\ hist' = <<new_checkpoint(Feature, args, clock)>>
    /\ UNCHANGED <<fd, st, clock, committed, out, args, engineVars>>

LoadCreated ==
    /\ hist # <<>>
    /\ ~out.called
    /\ out' = Returned(load_checkpoint(fs.final))
    /\ UNCHANGED <<storeVars, args, hist, engineVars>>

NextCreate == CreateCheckpoint \/ LoadCreated

SpecCreate == InitCreate /\ [][NextCreate]_vars

\* C22: the load_checkpoint that follows create_checkpoint returns a checkpoint
\* of the feature with one batch per batch spec and one task per task spec, in
\* spec order, with the specs' ids, names, types and executors, every status
\* pending, nothing of what the path held before, and equal to the tree that
\* create_checkpoint returned.
C22_CreateThenLoadGivesPendingTree ==
    out.called =>
        /\ out.value[1].found
        /\ LET cp == out.value[1].cp[1] IN
             /\ cp.feature_name = Feature
             /\ cp.total_batches = Len(args)
             /\ cp.current_batch = 0
             /\ cp.error_log = <<>>
             /\ Len(cp.batches) = Len(args)
             /\ \A i \in 1..Len(args) :
                  LET b == cp.batches[i] IN
                  /\ b.batch_id = args[i].id
                  /\ b.name = args[i].name
                  /\ b.batch_type = args[i].type
                  /\ b.status = "pending"
                  /\ Len(b.tasks) = Len(args[i].tasks)
                  /\ \A j \in 1..Len(b.tasks) :
                       /\ b.tasks[j].task_id = args[i].tasks[j].id
                       /\ b.tasks[j].name = args[i].tasks[j].name
                       /\ b.tasks[j].executor = args[i].tasks[j].executor
                       /\ b.tasks[j].status = "pending"
                       /\ b.tasks[j].start_time = 0
                       /\ b.tasks[j].end_time = 0
                       /\ b.tasks[j].error_message = None
                       /\ b.tasks[j].result = None
             /\ cp.batches = hist[1].batches

\* C22 witness: a three-task tree loaded where a checkpoint of two tasks, one
\* completed and one failed, in a failed batch, was stored
C22_Witness ==
    /\ out.called
    /\ Len(args) = 2
    /\ committed.kind = "doc"
    /\ committed.data[1].batches[1].status = "failed"
    /\ committed.data[1].batches[1].tasks[1].status = "completed"
    /\ committed.data[1].batches[1].tasks[2].status = "failed"
    /\ out.value[1].found
    /\ Len(TasksOf(out.value[1].cp[1])) = 3

\* C23: after a parallel batch without cancellation has returned, the persisted
\* status of every task of the batch is the outcome execute_task returned for
\* it (success as completed, skipped as skipped, failed as failed), under every
\* interleaving of the workers' store updates.
C23_NoStatusUpdateLost ==
    \A k \in 1..Len(results) :
        (results[k].batch_type = "parallel" /\ ~cancelled) =>
            \A t \in BatchTasks(k) :
                tres[t].result \in {"success", "skipped", "failed"} =>
                    PersistedStatus(t) = StatusOfResult(tres[t].result)

\* the status batch l has in the checkpoint the run starts from
StatusAtStart(l) ==
    IF cfg.resume /\ Stored.found THEN Stored.cp[1].batches[l].status ELSE "pending"

\* C24: under fail_fast, once a task of a batch has failed no later batch is
\* entered: none of its tasks is started, its persisted status stays what it was
\* at the start of the run (pending on a new checkpoint), and the list returned
\* holds the outcomes of exactly the batches entered, in list order.
C24_FailFastHaltsTheRun ==
    (cfg.error_strategy = "fail_fast" /\ mpc # "init") =>
        \A k \in 1..Len(cfg.batches) :
            (\E t \in BatchTasks(k) : tres[t].result = "failed") =>
                /\ \A l \in (k + 1)..Len(cfg.batches) :
                      /\ \A u \in BatchTasks(l) : tpc[u] = "idle" /\ attempts[u] = 0
                      /\ Loaded.found => Loaded.cp[1].batches[l].status = StatusAtStart(l)
                      /\ \A n \in 1..Len(results) : results[n].batch_id # cfg.batches[l].id
                /\ mpc = "done" =>
                      /\ Len(results) = k - start_batch
                      /\ \A n \in 1..Len(results) :
                            results[n].batch_id = cfg.batches[start_batch + n].id

\* C24 witness: a new run under fail_fast has ended after task 1.1 of the first
\* batch failed; one outcome is returned and batch B is stored pending
C24_Witness ==
    /\ cfg.error_strategy = "fail_fast"
    /\ args.stored = Missing
    /\ mpc = "done"
    /\ tres["1.1"].result = "failed"
    /\ Len(results) = 1
    /\ results[1].batch_id = 1
    /\ Loaded.found
    /\ Loaded.cp[1].batches[2].status = "pending"

(***************************************************************************)
(* SpecIds: execute_all_batches with resume on two batches whose ids are   *)
(* not their list positions, started on the checkpoint an earlier run of   *)
(* the same batches left.                                                  *)
(***************************************************************************)
IdBatches ==
    << BatchSpec(2, "A", "serial", <<"1.1">>),
       BatchSpec(1, "B", "parallel", <<"2.1", "2.2">>) >>

IdConfigs ==
    [error_strategy : {"skip"}, max_retries : {0},
     max_parallel_tasks : {MaxParallel}, has_callback : {FALSE},
     answers : {DocumentedAnswers}, timeouts : {FALSE},
     logger : {"sink"}, batches : {IdBatches}, resume : {TRUE}]

InitIds ==
    /\ cfg \in IdConfigs
    /\ fs \in LeftBehind(cfg.batches)
    /\ args = [stored |-> fs.final]
    /\ NewEngine

SpecIds == InitIds /\ [][Next]_vars

\* the list position of the first batch the stored checkpoint holds as pending,
\* in_progress or partial; 0 if there is none
ResumePosition ==
    LET open == {i \in 1..Len(Stored.cp[1].batches) :
                    Stored.cp[1].batches[i].status \in {"pending", "in_progress", "partial"}}
    IN  IF open = {} THEN 0 ELSE CHOOSE i \in open : \A j \in open : i <= j

\* C25: a run that resumes from a resume point and ends without cancellation has
\* executed the resume-point batch and every batch after it in list order, and
\* no batch before it, whatever the values of the batch ids.
C25_ResumeByListPosition ==
    (mpc = "done" /\ ~cancelled /\ Stored.found /\ ResumePosition > 0) =>
        \A i \in 1..Len(cfg.batches) :
            /\ i >= ResumePosition =>
                  \E n \in 1..Len(results) : results[n].batch_id = cfg.batches[i].id
            /\ i < ResumePosition => \A t \in BatchTasks(i) : attempts[t] = 0

\* C26: under every error strategy and with every decision callback, the work
\* of a task is invoked at most max_retries + 1 times by one execute_task.
C26_AttemptsBounded ==
    \A t \in Tasks : attempts[t] <= cfg.max_retries + 1

\* the outcome of its work that the caller of the last call of t was given
LastSeen(t) == work[t].threads[Len(work[t].threads)].seen

\* C27: a call whose work does not end within the timeout is handled as a failed
\* attempt, by the error strategy, while its thread keeps running; every other
\* call is given the outcome of its own work; and the later end of work that
\* timed out changes neither a result returned, a retry count, a status on its
\* way to the store, nor the checkpoint.
C27_TimedOutWorkHasNoEffect ==
    /\ [](\A t \in Tasks :
            /\ \A n \in 1..Len(work[t].threads) :
                  work[t].threads[n].seen \in {"returned", "raised"} =>
                      work[t].threads[n].seen = work[t].threads[n].state
            /\ tpc[t] = "success" => LastSeen(t) = "returned"
            /\ tpc[t] \in {"skipped", "failed"} => LastSeen(t) \in {"raised", "timeout"})
    /\ [][\A t \in Tasks : \A n \in 1..Len(work[t].threads) :
            /\ (work[t].threads[n].seen = "none" /\ work'[t].threads[n].seen = "timeout") =>
                  /\ work'[t].threads[n].state = "running"
                  /\ tpc'[t] \in {"retry", "skipped", "failed"}
                  /\ tpc'[t] = "retry" =>
                        /\ "retry" \in handle_error(cfg, retry_count[t])
                        /\ retry_count[t] < cfg.max_retries
                  /\ tpc'[t] = "skipped" => "skip" \in handle_error(cfg, retry_count[t])
                  /\ tpc'[t] = "failed" =>
                        \/ "abort" \in handle_error(cfg, retry_count[t])
                        \/ /\ "retry" \in handle_error(cfg, retry_count[t])
                           /\ retry_count[t] >= cfg.max_retries
            /\ ( /\ work[t].threads[n].seen = "timeout"
                 /\ work[t].threads[n].state = "running"
                 /\ work'[t].threads[n].state # "running" ) =>
                  UNCHANGED <<fs, st, tpc, tres, retry_count, told, cancelled>>]_vars

\* C27 witness: under skip, the work of task 1.1 timed out, the task was
\* returned and stored as skipped, and the work has ended since
C27_Witness ==
    /\ cfg.error_strategy = "skip"
    /\ tpc["1.1"] = "done"
    /\ tres["1.1"].result = "skipped"
    /\ PersistedStatus("1.1") = "skipped"
    /\ work["1.1"].threads[1].seen = "timeout"
    /\ work["1.1"].threads[1].state = "returned"

\* the task with id t as the checkpoint a reader loads holds it
PersistedTask(t) ==
    LET i == BatchOfTask(Loaded.cp[1], t)
    IN  Loaded.cp[1].batches[i].tasks[IndexOfTask(Loaded.cp[1].batches[i], t)]

\* C28: under the skip strategy, in a serial batch, a task whose work fails has
\* had its work invoked once, is returned and persisted as skipped with the
\* failure's message as its error, and the batch goes on: unless the run is
\* cancelled, the batch returns only after every task of it has been executed.
C28_SkipGoesOn ==
    (cfg.error_strategy = "skip" /\ mpc # "none") =>
        \A k \in 1..Len(cfg.batches) :
            cfg.batches[k].type = "serial" =>
                \A t \in BatchTasks(k) :
                    /\ WorkFailed(t) => attempts[t] = 1
                    /\ (tpc[t] = "done" /\ tres[t].result # "success"
                        /\ tres[t].result # "cancelled") =>
                          /\ tres[t].result = "skipped"
                          /\ tres[t].error = "boom"
                          /\ PersistedStatus(t) = "skipped"
                          /\ PersistedTask(t).error_message = "boom"
                          /\ \E e \in Range(Loaded.cp[1].error_log) :
                                e.task_id = t /\ e.error = "boom"
                    /\ ( /\ ~cancelled
                         /\ \E n \in 1..Len(results) :
                               results[n].batch_id = cfg.batches[k].id ) =>
                          attempts[t] = 1

\* C28 witness: the first task of a serial batch was skipped, the second
\* succeeded, the third was skipped, and the batch has returned
C28_Witness ==
    /\ cfg.error_strategy = "skip"
    /\ cfg.batches[1].type = "serial"
    /\ ~cancelled
    /\ Len(results) = 1
    /\ [j \in 1..3 |-> results[1].task_results[j].result] = <<"skipped", "success", "skipped">>
    /\ PersistedStatus("1.1") = "skipped"
    /\ PersistedStatus("1.3") = "skipped"

\* the error log of the checkpoint a reader loads
ErrorLog == IF Loaded.found THEN Loaded.cp[1].error_log ELSE <<>>

\* C29: error_log is append-only, also under the updates of concurrent parallel
\* tasks: no step removes or changes an entry of the stored log, and each step
\* adds at most one entry.
C29_ErrorLogAppendOnly ==
    [][ (Loaded.found /\ Loaded'.found) =>
          /\ Len(ErrorLog') >= Len(ErrorLog)
          /\ Len(ErrorLog') <= Len(ErrorLog) + 1
          /\ \A k \in 1..Len(ErrorLog) : ErrorLog'[k] = ErrorLog[k] ]_vars

\* the content of the final path before the k-th call of SpecUpdate
Before(k) == IF k = 1 THEN committed ELSE hist[k - 1]

\* a batch without its tasks
BatchFrame(b) == [x \in DOMAIN b \ {"tasks"} |-> b[x]]

\* C30: update_task_status changes only the task with the given id: every other
\* task, every batch's own fields, current_batch, total_batches, the feature
\* name, created_at and the shape of the tree are as before the call; only
\* updated_at and the error log may differ besides.  A call that returns False
\* leaves the stored content as it was.
C30_UpdateTouchesOneTask ==
    \A k \in 1..Len(hist) :
        IF Before(k).kind # "doc" THEN hist[k] = Before(k)
        ELSE /\ hist[k].kind = "doc"
             /\ LET pre == Before(k).data[1]
                    post == hist[k].data[1]
                IN  /\ post.feature_name = pre.feature_name
                    /\ post.current_batch = pre.current_batch
                    /\ post.total_batches = pre.total_batches
                    /\ post.created_at = pre.created_at
                    /\ Len(post.batches) = Len(pre.batches)
                    /\ \A i \in 1..Len(pre.batches) :
                          /\ BatchFrame(post.batches[i]) = BatchFrame(pre.batches[i])
                          /\ Len(post.batches[i].tasks) = Len(pre.batches[i].tasks)
                          /\ \A j \in 1..Len(pre.batches[i].tasks) :
                                /\ post.batches[i].tasks[j].task_id
                                     = pre.batches[i].tasks[j].task_id
                                /\ pre.batches[i].tasks[j].task_id # args.task_id =>
                                     post.batches[i].tasks[j] = pre.batches[i].tasks[j]
                    /\ ~out.value[1] => post = pre

\* C30 witness: task 1.1 was set to failed with an error while task 1.2 was
\* stored completed in a partial batch
C30_Witness ==
    /\ Len(hist) >= 1
    /\ out.value[1]
    /\ args.task_id = "1.1"
    /\ args.status = "failed"
    /\ args.error_message = "boom"
    /\ committed.kind = "doc"
    /\ committed.data[1].batches[1].status = "partial"
    /\ committed.data[1].batches[1].tasks[1].status = "pending"
    /\ committed.data[1].batches[1].tasks[2].status = "completed"
    /\ hist[1].data[1].batches[1].tasks[1].status = "failed"
    /\ hist[1].data[1].batches[1].tasks[2].status = "completed"

(***************************************************************************)
(* SpecMiss: update_task_status and update_batch_status called with known  *)
(* and unknown ids, on every checkpoint of the one-batch configuration and *)
(* on a feature without checkpoint.  hist holds each call, the file system *)
(* it found and the one it left, and what it returned.                     *)
(***************************************************************************)
InitMiss ==
    /\ fs \in StoredCheckpoints(UpdateConfig) \cup {NoFiles}
    /\ IdleStore
    /\ clock = 2
    /\ out = NotCalled
    /\ args = <<>>
    /\ hist = <<>>

MissArgs ==
    [task_id : {"1.1", "9.9"}, status : {"in_progress", "failed"},
     error_message : {None, "boom"}, result : {None}]

MissTask ==
    /\ Len(hist) < MaxCalls
    /\ \E a \in MissArgs :
         LET r == update_task_status(fs, a.task_id, a.status,
                                     a.error_message, a.result, clock)
         IN  /\ fs' = r.fs
             /\ out' = Returned(r.ret)
             /\ hist' = Append(hist, [call |-> "task", id |-> a.task_id,
                                      before |-> fs, after |-> r.fs, ret |-> r.ret])
    /\ UNCHANGED <<fd, st, clock, committed, args, engineVars>>

MissBatch ==
    /\ Len(hist) < MaxCalls
    /\ \E b \in {1, 2}, s \in {"in_progress", "completed"} :
         LET r == update_batch_status(fs, b, s, clock)
         IN  /\ fs' = r.fs
             /\ out' = Returned(r.ret)
             /\ hist' = Append(hist, [call |-> "batch", id |-> b,
                                      before |-> fs, after |-> r.fs, ret |-> r.ret])
    /\ UNCHANGED <<fd, st, clock, committed, args, engineVars>>

NextMiss == MissTask \/ MissBatch

SpecMiss == InitMiss /\ [][NextMiss]_vars

\* the call recorded in h names something the stored checkpoint does not have
Misses(h) ==
    LET l == load_checkpoint(h.before.final) IN
    \/ ~l.found
    \/ h.call = "task" /\ ~HasTask(l.cp[1], h.id)
    \/ h.call = "batch" /\ ~HasBatch(l.cp[1], h.id)

\* C31: update_task_status with a task id that is in no batch,
\* update_batch_status with an unknown batch id, and either update of a
\* feature without checkpoint return False, raise nothing and leave both
\* paths of the feature as they were.
C31_MissReturnsFalseAndKeepsStore ==
    \A k \in 1..Len(hist) :
        Misses(hist[k]) =>
            /\ hist[k].ret = FALSE
            /\ hist[k].after = hist[k].before
            /\ load_checkpoint(hist[k].before.final).raised = "none"

\* a task update with an unknown id and a batch update with an unknown id,
\* both on a stored checkpoint, and one without checkpoint
C31_Witness ==
    /\ Len(hist) = 2
    /\ hist[1].call = "task" /\ hist[1].id = "9.9"
    /\ hist[1].before.final # Missing
    /\ hist[2].call = "batch" /\ hist[2].id = 2
    /\ hist[2].before.final # Missing
    /\ out = Returned(FALSE)

(***************************************************************************)
(* SpecFeatures: one store holding the checkpoints of several features.    *)
(* fs maps the directory of a feature to its two paths; args is the last   *)
(* call made.  A feature name is looked at character by character where    *)
(* the store derives the directory from it.                                *)
(***************************************************************************)
FeatureNames == {"ab", "a/b", "a_b"}

\* the characters of a feature name
Chars(feature_name) ==
    CASE feature_name = "ab" -> <<"a", "b">>
      [] feature_name = "a/b" -> <<"a", "/", "b">>
      [] feature_name = "a_b" -> <<"a", "_", "b">>

\* str.isalnum on one character
isalnum(c) == c \in {"a", "b"}

\* line 101: the directory below checkpoint_dir, as its characters
get_checkpoint_path(feature_name) ==
    [i \in 1..Len(Chars(feature_name)) |->
        IF isalnum(Chars(feature_name)[i]) \/ Chars(feature_name)[i] \in {"-", "_"}
        THEN Chars(feature_name)[i] ELSE "_"]

CheckpointPaths == {get_checkpoint_path(n) : n \in FeatureNames}

\* save_checkpoint derives the path from the name inside the checkpoint
save_checkpoint_at(store, cp, now) ==
    [store EXCEPT ![get_checkpoint_path(cp.feature_name)] = save_checkpoint(@, cp, now)]

create_checkpoint_at(store, feature_name, batches_config, now) ==
    save_checkpoint_at(store, new_checkpoint(feature_name, batches_config, now), now)

load_checkpoint_at(store, feature_name) ==
    load_checkpoint(store[get_checkpoint_path(feature_name)].final)

update_task_status_at(store, feature_name, task_id, status, error_message, result, now) ==
    LET l == load_checkpoint_at(store, feature_name) IN
    IF ~l.found \/ ~HasTask(l.cp[1], task_id) THEN store
    ELSE save_checkpoint_at(store,
            task_updated(l.cp[1], task_id, status, error_message, result, now), now)

\* lines 366-377: unlink the file if it exists; the directory goes when empty
delete_checkpoint(store, feature_name) ==
    [store EXCEPT ![get_checkpoint_path(feature_name)].final = Missing]

InitFeatures ==
    /\ fs = [p \in CheckpointPaths |-> NoFiles]
    /\ fd = [a \in {"main"} |-> "none"]
    /\ st = [a \in {"main"} |-> Idle]
    /\ committed = Missing
    /\ NoEngine
    /\ clock = 1
    /\ out = NotCalled
    /\ args = <<>>
    /\ hist = <<>>

FeatureCreate ==
    /\ \E n \in FeatureNames, c \in SummaryConfigs :
         /\ fs' = create_checkpoint_at(fs, n, c, clock)
         /\ args' = <<[call |-> "create", feature_name |-> n]>>
    /\ UNCHANGED <<fd, st, clock, committed, out, hist, engineVars>>

FeatureUpdate ==
    /\ \E n \in FeatureNames, s \in {"in_progress", "completed"} :
         /\ fs' = update_task_status_at(fs, n, "1.1", s, ErrorWith(s), ResultWith(s), clock)
         /\ args' = <<[call |-> "update", feature_name |-> n]>>
    /\ UNCHANGED <<fd, st, clock, committed, out, hist, engineVars>>

FeatureDelete ==
    /\ \E n \in FeatureNames :
         /\ fs' = delete_checkpoint(fs, n)
         /\ args' = <<[call |-> "delete", feature_name |-> n]>>
    /\ UNCHANGED <<fd, st, clock, committed, out, hist, engineVars>>

NextFeatures == FeatureCreate \/ FeatureUpdate \/ FeatureDelete \/ Tick

SpecFeatures == InitFeatures /\ [][NextFeatures]_vars

\* C32: creating, updating or deleting the checkpoint of one feature name
\* never changes what load_checkpoint returns for a different feature name.
C32_FeaturesIndependent ==
    [][ \A m \in FeatureNames :
            (args' # <<>> /\ m # args'[1].feature_name)
            => load_checkpoint_at(fs', m) = load_checkpoint_at(fs, m) ]_vars

(***************************************************************************)
(* SpecPause: a run of one serial batch during which pause() and resume()  *)
(* are called from outside at any moment.                                  *)
(***************************************************************************)
PauseConfigs ==
    { c \in Configs : /\ c.batches[1].type = "serial"
                      /\ c.error_strategy = "skip"
                      /\ c.max_retries = 0
                      /\ c.logger = "sink" }

InitPause ==
    /\ cfg \in PauseConfigs
    /\ fs = NoFiles
    /\ args = <<>>
    /\ NewEngine

\* pause(), lines 682-684
Pause ==
    /\ mpc \notin {"none", "done", "raised"}
    /\ pause_requested' = TRUE
    /\ UNCHANGED <<storeVars, callVars, cfg, cancelled, mainVars, taskVars, fut>>

\* resume(), lines 686-688
Resume ==
    /\ mpc \notin {"none", "done", "raised"}
    /\ pause_requested' = FALSE
    /\ UNCHANGED <<storeVars, callVars, cfg, cancelled, mainVars, taskVars, fut>>

NextPause ==
    \/ ExecuteAllBatches
    \/ NextBatch
    \/ SerialStep
    \/ SerialCollect
    \/ BatchEnd
    \/ Pause
    \/ Resume
    \/ \E t \in Tasks : Attempt(t)
    \/ \E t \in Tasks : WorkEnds(t)
    \/ \E t \in Tasks : ReturnTask(t)
    \/ \E t \in Tasks : SaveOpen(t)
    \/ \E t \in Tasks : SaveWrite(t)
    \/ \E t \in Tasks : SaveRename(t)

SpecPause == InitPause /\ [][NextPause]_vars

\* C33: after pause() has been called and until resume() is called, the
\* engine starts no new task: while _pause_requested is set no call of
\* execute_task begins.
C33_PausedStartsNoTask ==
    [][ pause_requested =>
            \A t \in Tasks : tpc[t] = "idle" => tpc'[t] = "idle" ]_vars

\* C34: when execute_all_batches has returned, also after cancel() or a
\* fail-fast abort, every task that was entered has a terminal persisted
\* status and none is left in_progress (stated here for a serial batch, where
\* no two updates of the checkpoint overlap).
C34_NoTaskLeftInProgress ==
    (mpc = "done" /\ cfg.batches[1].type = "serial") =>
        \A t \in Tasks :
            tpc[t] # "idle" => PersistedStatus(t) \in {"completed", "failed", "skipped"}

\* C35: whenever a batch's persisted status is completed, every task of that
\* batch has persisted status completed (stated here for a serial batch, where
\* no two updates of the checkpoint overlap).
C35_CompletedBatchHasCompletedTasks ==
    (Loaded.found /\ cfg.batches # <<>> /\ cfg.batches[1].type = "serial") =>
        \A i \in 1..Len(Loaded.cp[1].batches) :
            Loaded.cp[1].batches[i].status = "completed" =>
                \A j \in 1..Len(Loaded.cp[1].batches[i].tasks) :
                    Loaded.cp[1].batches[i].tasks[j].status = "completed"

\* C36: for any one task, at most one invocation of its work function is
\* running at any time.
C36_OneWorkRunningPerTask ==
    \A t \in Tasks :
        Cardinality({n \in 1..Len(work[t].threads) :
                        work[t].threads[n].state = "running"}) <= 1

\* the invocations of the work of task t that are running
RunningWork(t) ==
    {n \in 1..Len(work[t].threads) : work[t].threads[n].state = "running"}

\* C36, amended: an invocation of a task's work that is still running is
\* either the one its execute_task is waiting for, or one whose wait ended
\* with a timeout; a retry starts only after the previous invocation has
\* stopped or timed out, and without timeouts at most one invocation runs.
C36_OneWorkAwaitedPerTask ==
    \A t \in Tasks :
        /\ \A n \in RunningWork(t) :
              \/ work[t].threads[n].seen = "timeout"
              \/ /\ n = Len(work[t].threads)
                 /\ tpc[t] = "working"
                 /\ work[t].threads[n].seen = "none"
        /\ ~cfg.timeouts => Cardinality(RunningWork(t)) <= 1

\* the first invocation timed out and is still running while the retry's
\* invocation runs
C36_Witness ==
    /\ tpc["1.1"] = "working"
    /\ retry_count["1.1"] = 1
    /\ RunningWork("1.1") = {1, 2}
    /\ work["1.1"].threads[1].seen = "timeout"

\* the status of task t in a loaded checkpoint, "unreadable" if none
TaskStatusIn(l, t) ==
    IF l.found /\ HasTask(l.cp[1], t)
    THEN LET i == BatchOfTask(l.cp[1], t)
         IN  l.cp[1].batches[i].tasks[IndexOfTask(l.cp[1].batches[i], t)].status
    ELSE "unreadable"

\* the status of the batch with an id in a loaded checkpoint
BatchStatusIn(l, batch_id) ==
    IF l.found /\ HasBatch(l.cp[1], batch_id)
    THEN l.cp[1].batches[IndexOfBatch(l.cp[1], batch_id)].status
    ELSE "unreadable"

PersistedBatchStatus(k) == BatchStatusIn(Loaded, cfg.batches[k].id)

\* C37: for every batch executed, serial or parallel, cancelled or not, a task
\* of the batch becomes persisted in_progress only when the batch is persisted
\* in_progress already (or with it, when the file was unreadable), and the
\* batch's final status is persisted only when every started task of the
\* batch has returned, and is the status of the BatchResult returned for it.
C37_BatchStatusBrackets ==
    [][ fs'.final # fs.final =>
        LET old == load_checkpoint(fs.final)
            new == load_checkpoint(fs'.final)
        IN  \A k \in 1..Len(cfg.batches) :
            LET b_old == BatchStatusIn(old, cfg.batches[k].id)
                b_new == BatchStatusIn(new, cfg.batches[k].id)
            IN
            /\ \A t \in BatchTasks(k) :
                  ( /\ TaskStatusIn(old, t) # "in_progress"
                    /\ TaskStatusIn(new, t) = "in_progress" )
                  => /\ b_old \in {"in_progress", "unreadable"}
                     /\ b_new = "in_progress"
            /\ (b_new \in {"completed", "failed", "partial"} /\ b_new # b_old)
               => /\ b_old \in {"in_progress", "unreadable"}
                  /\ \A t \in BatchTasks(k) : tpc[t] \in {"idle", "done", "raised"}
                  /\ \A t \in BatchTasks(k) : fut[t] \notin {"queued", "running"}
                  /\ Len(results') = Len(results) + 1
                  /\ results'[Len(results')].batch_id = cfg.batches[k].id
                  /\ results'[Len(results')].status = b_new ]_vars

\* a parallel batch cancelled while its two workers ran: both have returned
\* and the batch is persisted with the status of its result, partial
C37_Witness ==
    /\ Len(results) = 1
    /\ results[1].batch_type = "parallel"
    /\ cancelled
    /\ results[1].status = "partial"
    /\ PersistedBatchStatus(1) = "partial"
    /\ \A t \in Tasks : tpc[t] = "done" /\ attempts[t] >= 1

\* C38: after execute_task has returned success, skipped or failed, the
\* retry_count persisted for the task in the checkpoint equals the retry_count
\* of the returned TaskResult.
C38_RetryCountPersisted ==
    \A t \in Tasks :
        ( /\ tpc[t] = "done"
          /\ tres[t].result \in {"success", "skipped", "failed"}
          /\ Loaded.found /\ HasTask(Loaded.cp[1], t) )
        => PersistedTask(t).retry_count = tres[t].retry_count

\* the number of stored tasks with a status
StoredWith(status) ==
    Cardinality({j \in 1..Len(StoredStatuses) : StoredStatuses[j] = status})

\* C39: in get_execution_summary each status count equals the number of tasks
\* having that status, the in_progress count in particular, for every mix of
\* task statuses.
C39_CountsMatchStatuses ==
    (out.called /\ out.value[1].found) =>
        LET s == out.value[1].summary[1].status IN
        /\ s.completed = StoredWith("completed")
        /\ s.failed = StoredWith("failed")
        /\ s.pending = StoredWith("pending")
        /\ s.in_progress = StoredWith("in_progress")

(***************************************************************************)
(* SpecRoundTrip: a checkpoint is built in memory, changed there up to     *)
(* MaxCalls times, saved over no file or over another document, and        *)
(* loaded.  args holds the checkpoint object, hist what was done to it,    *)
(* out what load_checkpoint returned.                                      *)
(***************************************************************************)
InitRoundTrip ==
    /\ fs \in {NoFiles, create_checkpoint(NoFiles, Feature, UpdateConfig, 1)}
    /\ IdleStore
    /\ clock = 1
    /\ out = NotCalled
    /\ \E c \in SummaryConfigs : args = <<new_checkpoint(Feature, c, 1)>>
    /\ hist = <<>>

\* the host changes the object: a task, a batch, the config
ChangeInMemory ==
    /\ Len(hist) < MaxCalls
    /\ "save" \notin Range(hist)
    /\ \/ \E t \in {"1.1", "1.2"}, s \in TaskStatus :
            /\ HasTask(args[1], t)
            /\ args' = <<task_updated(args[1], t, s, ErrorWith(s), ResultWith(s), clock)>>
       \/ \E b \in {1, 2}, s \in BatchStatus :
            /\ HasBatch(args[1], b)
            /\ args' = <<batch_updated(args[1], b, s, clock)>>
       \/ args' = <<[args[1] EXCEPT !.config = [mode |-> "fast"]]>>
    /\ hist' = Append(hist, "change")
    /\ UNCHANGED <<storeVars, out, engineVars>>

\* save_checkpoint(checkpoint): the object's updated_at is set as well
SaveCheckpoint ==
    /\ "save" \notin Range(hist)
    /\ fs' = save_checkpoint(fs, args[1], clock)
    /\ committed' = fs'.final
    /\ args' = <<[args[1] EXCEPT !.updated_at = clock]>>
    /\ hist' = Append(hist, "save")
    /\ UNCHANGED <<fd, st, clock, out, engineVars>>

LoadSaved ==
    /\ "save" \in Range(hist)
    /\ ~out.called
    /\ out' = Returned(load_checkpoint(fs.final))
    /\ UNCHANGED <<storeVars, args, hist, engineVars>>

NextRoundTrip == ChangeInMemory \/ SaveCheckpoint \/ LoadSaved \/ Tick

SpecRoundTrip == InitRoundTrip /\ [][NextRoundTrip]_vars

====
